---- MODULE Spec2Model ----
(***************************************************************************)
(* Model of the repository-analysis agent: the LangGraph orchestrator      *)
(* (agent/langgraph_workflow.py), the planner, executor, analyzer,         *)
(* summarizer and verifier nodes, and the schema / citation validators.    *)
(*                                                                         *)
(* Representation of Python values:                                        *)
(*  - a dict is a function from its keys to its values;                    *)
(*  - a JSON / Python value that may have any type is a tagged record      *)
(*    (JStr, JInt, JBool, JNull, JList, JDict);                            *)
(*  - a formatted string (f-string) is the record Fmt(tpl, s, n) of its    *)
(*    literal template, its string arguments and its integer arguments;    *)
(*  - None is the string NoneVal.                                          *)
(***************************************************************************)
EXTENDS Integers, Sequences, FiniteSets, TLC

VARIABLES
    \* environment (inputs of one run)
    task,                   \* AgentState.task
    fs,                     \* the repository: file name -> "absent" | "regular" | "symlink"
    listWorks,              \* whether tools.list_files returns (FALSE: it raises)
    list_max_files,         \* the max_files argument of the list_files call
    cwd,                    \* the working directory of the process
    pushd_prev,             \* prev of _pushd while the run is inside it, else None
    cwd_before,             \* the working directory when run_langgraph_agent was called
    content_validation,     \* mode and content_validation of the last validate_citations call
    \* AgentState (agent/state.py)
    plan, tool_calls, retrieved_files, output,
    schema_valid, citations_valid, schema_errors, citation_errors,
    llm_attempts, max_llm_attempts, last_validation_feedback, route_decision,
    \* position of the run in the graph
    pc,
    \* locals of execute_plan / _read_with_retries
    stepIdx, listed_files, list_files_succeeded, global_failures,
    to_read, readIdx, attempt, use_chunk_fallback,
    \* history (not program state)
    modelCalls,             \* number of llm.invoke calls made
    summarizeRuns,          \* number of executions of node_summarize
    injected,               \* number of injected read failures so far
    lastWrite,              \* which step last wrote output or the validation fields
    readArgs,               \* the arguments of every read_file call, in call order
    prompts                 \* what every llm.invoke call was given, in call order

agentVars == <<plan, tool_calls, retrieved_files, output, schema_valid, citations_valid,
               schema_errors, citation_errors, llm_attempts, max_llm_attempts,
               last_validation_feedback, route_decision>>
execVars == <<stepIdx, listed_files, list_files_succeeded, global_failures,
              to_read, readIdx, attempt, use_chunk_fallback>>
envVars == <<task, fs, listWorks, list_max_files, cwd, pushd_prev, cwd_before,
            content_validation>>
histVars == <<modelCalls, summarizeRuns, injected, lastWrite, readArgs, prompts>>
vars == <<envVars, agentVars, pc, execVars, histVars>>

----------------------------------------------------------------------------
(* Bounds of the model *)

\* injected (transient) read failures per run
MaxInjected == 1
\* number of lines of every regular text file of the repository
FileLines == 2
\* executions of node_summarize after which none is modelled (caps the counters)
MaxSummarizeRuns == 4

(* Program constants *)
MAX_GLOBAL_RETRIES == 6
MAX_FILE_RETRIES == 3
DefaultMaxLlmAttempts == 2
FullReadMaxLines == 5000
ChunkFallbackEnd == 200
TaskLineThreshold == 200
TaskLinePadding == 5
ReadCap == 10
MaxFilesDefault == 5000

NoneVal == "<None>"
\* last_validation_feedback: None, or the newline-joined parts
NoFeedback == [is_none |-> TRUE, parts |-> <<>>]
Feedback(parts) == [is_none |-> FALSE, parts |-> parts]

----------------------------------------------------------------------------
(* Python values *)

JStr(s) == [t |-> "str", s |-> s]
JInt(n) == [t |-> "int", n |-> n]
JBool(b) == [t |-> "bool", b |-> b]
JNull == [t |-> "null"]
JList(l) == [t |-> "list", l |-> l]
JDict(d) == [t |-> "dict", d |-> d]

\* isinstance(v, str), isinstance(v, int) (bool is a subclass of int), ...
IsStr(v) == v.t = "str"
IsInt(v) == v.t \in {"int", "bool"}
IsList(v) == v.t = "list"
IsDict(v) == v.t = "dict"

EmptyDict == [k \in {} |-> JNull]
\* dict.get(key): the value, or None
Get(d, k) == IF k \in DOMAIN d THEN d[k] ELSE JNull

\* a formatted string: literal template, string arguments, integer arguments,
\* and the set of names of a sorted name list it prints
FmtK(tpl, s, n, k) == [tpl |-> tpl, s |-> s, n |-> n, k |-> k]
Fmt(tpl, s, n) == FmtK(tpl, s, n, {})
Lit(tpl) == Fmt(tpl, <<>>, <<>>)

Min(a, b) == IF a < b THEN a ELSE b
Max(a, b) == IF a > b THEN a ELSE b

----------------------------------------------------------------------------
(* The universe of the runs: file names and tasks *)

\* File names of the model, in sorted (str) order.  No name is a suffix of
\* another, none contains a keyword of the verifier or of should_retry.
Files == <<"a.py", "data.db", "main.py">>
FileSet == {Files[i] : i \in 1..Len(Files)}

\* The names of a wider repository, in sorted (str) order: "ab.py" ends with
\* "b.py", and there are more names than the executor's read cap.
WideFiles == <<"a.py", "ab.py", "b.py", "data.db", "f1.py", "f2.py", "f3.py", "f4.py",
               "f5.py", "f6.py", "f7.py", "f8.py", "f9.py", "main.py">>
WideFileSet == {WideFiles[i] : i \in 1..Len(WideFiles)}
\* the position of a name in str order
FileRank(f) == CHOOSE i \in 1..Len(WideFiles) : WideFiles[i] = f

\* a.endswith(b)
EndsWith(a, b) == Len(a) >= Len(b) /\ SubSeq(a, Len(a) - Len(b) + 1, Len(a)) = b

\* a name the model may cite although no tool ever returned it
GhostFile == "ghost.py"

TaskGeneral == "Identify high-risk areas."
TaskEtc == "describe contents of /etc/passwd"
TaskDb == "summarize data.db"
TaskPy == "explain a.py"
\* a task that names one line beyond the chunk threshold
TaskLine == "explain a.py line 300"
\* a task that names a file whose name is the end of another file's name
TaskB == "explain b.py"
\* a task that names more files than the executor's read cap
TaskMany == "compare f1.py f2.py f3.py f4.py f5.py f6.py f7.py f8.py f9.py a.py b.py"
\* a task that names a Windows system path and no file
TaskWin == "list c:\\windows\\ entries"
Tasks == {TaskGeneral, TaskEtc, TaskDb, TaskPy}

\* the file names that occur in the task text
TaskNames(t) ==
    CASE t = TaskDb -> <<"data.db">>
      [] t = TaskPy -> <<"a.py">>
      [] t = TaskLine -> <<"a.py">>
      [] t = TaskB -> <<"b.py">>
      [] t = TaskMany -> <<"f1.py", "f2.py", "f3.py", "f4.py", "f5.py", "f6.py", "f7.py",
                           "f8.py", "f9.py", "a.py", "b.py">>
      [] OTHER -> <<>>

\* the task text holds '../..', '/etc/', '/usr/', '/var/', '/tmp/' or '/home/'
HasUnixTraversal(t) == t = TaskEtc
\* the task text holds '\windows\'
HasWindowsPath(t) == t = TaskWin

\* the mode and content_validation a caller of validate_citations passes when
\* it passes none: "range_only" and {}
RangeOnly == [mode |-> "range_only", assertions |-> <<>>]

InitEnv ==
    /\ task \in Tasks
    /\ fs \in [FileSet -> {"absent", "regular", "symlink"}]
    /\ fs["data.db"] # "symlink"
    /\ listWorks \in BOOLEAN
    /\ list_max_files = MaxFilesDefault
    /\ content_validation = RangeOnly

\* the directories the caller may be in, and the repository's directory
CallerDirs == {"/work", "/srv"}
RepoDir == "/repo"

InitCwd ==
    /\ cwd \in CallerDirs
    /\ cwd_before = cwd
    /\ pushd_prev = NoneVal

InitAgent ==
    /\ plan = <<>>
    /\ tool_calls = <<>>
    /\ retrieved_files = <<>>
    /\ output = EmptyDict
    /\ schema_valid = FALSE
    /\ citations_valid = FALSE
    /\ schema_errors = <<>>
    /\ citation_errors = <<>>
    /\ llm_attempts = 0
    /\ max_llm_attempts = DefaultMaxLlmAttempts
    /\ last_validation_feedback = NoFeedback
    /\ route_decision = "call_llm"

InitExec ==
    /\ stepIdx = 1
    /\ listed_files = <<>>
    /\ list_files_succeeded = FALSE
    /\ global_failures = 0
    /\ to_read = <<>>
    /\ readIdx = 0
    /\ attempt = 0
    /\ use_chunk_fallback = FALSE

Init ==
    /\ InitEnv
    /\ InitCwd
    /\ InitAgent
    /\ InitExec
    /\ pc = "call"
    /\ modelCalls = 0
    /\ summarizeRuns = 0
    /\ injected = 0
    /\ readArgs = <<>>
    /\ prompts = <<>>
    /\ lastWrite = "init"

----------------------------------------------------------------------------
(* Planner: agent/planner.py *)

_detect_task_type(t) ==
    IF HasUnixTraversal(t) THEN "security_reject"
    ELSE IF t = TaskDb THEN "possibly_binary"
    ELSE "general"

\* a plan that reads before it lists
plan_task_reading_first(t) ==
    <<"Read relevant files", "List repository files", "Analyze code",
      "Generate structured output", "Verify reliability">>

plan_task(t) ==
    <<"List repository files">>
    \o (IF _detect_task_type(t) = "security_reject"
        THEN <<"Analyze code">>
        ELSE <<"Read relevant files", "Analyze code">>)
    \o <<"Generate structured output", "Verify reliability">>

node_plan ==
    /\ pc = "plan"
    /\ plan' = plan_task(task)
    /\ pc' = "execute"
    /\ UNCHANGED <<envVars, tool_calls, retrieved_files, output, schema_valid,
                   citations_valid, schema_errors, citation_errors, llm_attempts,
                   max_llm_attempts, last_validation_feedback, route_decision,
                   execVars, histVars>>

----------------------------------------------------------------------------
(* Evidence tools: tools/list_files.py, tools/read_file.py *)

\* character i of a str
Ch(s, i) == SubSeq(s, i, i)
\* s.startswith(b)
StartsWith(s, b) == Len(s) >= Len(b) /\ SubSeq(s, 1, Len(b)) = b
\* sub in text
StrContains(text, sub) ==
    \E k \in 0..(Len(text) - Len(sub)) : SubSeq(text, k + 1, k + Len(sub)) = sub
UpperChars == "ABCDEFGHIJKLMNOPQRSTUVWXYZ"
LowerChars == "abcdefghijklmnopqrstuvwxyz"
\* c.lower() for one character
LowerCh(c) ==
    IF \E i \in 1..Len(UpperChars) : Ch(UpperChars, i) = c
    THEN Ch(LowerChars, CHOOSE i \in 1..Len(UpperChars) : Ch(UpperChars, i) = c)
    ELSE c
RECURSIVE LowerFrom(_, _)
LowerFrom(s, i) == IF i > Len(s) THEN "" ELSE LowerCh(Ch(s, i)) \o LowerFrom(s, i + 1)
\* s.lower()
Lower(s) == LowerFrom(s, 1)

RECURSIVE Split(_, _, _)
\* path.split("/") from position i on; cur is the component being read
Split(s, i, cur) ==
    IF i > Len(s) THEN <<cur>>
    ELSE IF Ch(s, i) = "/" THEN <<cur>> \o Split(s, i + 1, "")
    ELSE Split(s, i + 1, cur \o Ch(s, i))

RECURSIVE Join(_)
\* "/".join(comps)
Join(comps) ==
    IF comps = <<>> THEN ""
    ELSE IF Len(comps) = 1 THEN comps[1]
    ELSE comps[1] \o "/" \o Join(Tail(comps))

\* os.path.isabs on POSIX
isabs(p) == StartsWith(p, "/")

RECURSIVE NormComps(_, _, _)
\* the component loop of posixpath.normpath: empty and "." components are
\* dropped, ".." removes the component before it unless there is none to
\* remove (then it is kept on a relative path and dropped on an absolute one)
NormComps(comps, new_comps, initial_slashes) ==
    IF comps = <<>> THEN new_comps
    ELSE IF Head(comps) \in {"", "."}
    THEN NormComps(Tail(comps), new_comps, initial_slashes)
    ELSE IF \/ Head(comps) # ".."
            \/ (~initial_slashes /\ new_comps = <<>>)
            \/ (new_comps # <<>> /\ new_comps[Len(new_comps)] = "..")
    THEN NormComps(Tail(comps), Append(new_comps, Head(comps)), initial_slashes)
    ELSE IF new_comps # <<>>
    THEN NormComps(Tail(comps), SubSeq(new_comps, 1, Len(new_comps) - 1), initial_slashes)
    ELSE NormComps(Tail(comps), new_comps, initial_slashes)

\* the leading slashes normpath keeps: two for exactly two, else one
InitialSlashes(p) ==
    IF StartsWith(p, "//") /\ ~StartsWith(p, "///") THEN "//"
    ELSE IF StartsWith(p, "/") THEN "/" ELSE ""

\* os.path.normpath on POSIX
normpath(p) ==
    IF p = "" THEN "."
    ELSE IF InitialSlashes(p) \o Join(NormComps(Split(p, 1, ""), <<>>, isabs(p))) = ""
    THEN "."
    ELSE InitialSlashes(p) \o Join(NormComps(Split(p, 1, ""), <<>>, isabs(p)))

RECURSIVE RFind(_, _, _)
\* s.rfind(c) within the first i characters, counted from 1; 0 when absent
RFind(s, c, i) ==
    IF i = 0 THEN 0 ELSE IF Ch(s, i) = c THEN i ELSE RFind(s, c, i - 1)

\* os.path.splitext(p)[1]: from the last dot of the last component on, unless
\* only dots come before it in that component
splitext(p) ==
    IF /\ RFind(p, ".", Len(p)) > RFind(p, "/", Len(p))
       /\ \E k \in (RFind(p, "/", Len(p)) + 1)..(RFind(p, ".", Len(p)) - 1) : Ch(p, k) # "."
    THEN SubSeq(p, RFind(p, ".", Len(p)), Len(p))
    ELSE ""

RECURSIVE SelectFiles(_, _)
\* the entries of the sorted sequence fl that exist in the repository
SelectFiles(fl, i) ==
    IF i > Len(fl) THEN <<>>
    ELSE (IF fl[i] \in DOMAIN fs /\ fs[fl[i]] # "absent" THEN <<fl[i]>> ELSE <<>>)
         \o SelectFiles(fl, i + 1)

\* the characters of the model's names in code point order
CharOrder == "-./0123456789ABCDEFGHIJKLMNOPQRSTUVWXYZ_abcdefghijklmnopqrstuvwxyz"
CharRank(c) == CHOOSE i \in 1..Len(CharOrder) : Ch(CharOrder, i) = c

RECURSIVE StrLessFrom(_, _, _)
\* a < b for two str that agree before position i
StrLessFrom(a, b, i) ==
    IF i > Len(b) THEN FALSE
    ELSE IF i > Len(a) THEN TRUE
    ELSE IF Ch(a, i) = Ch(b, i) THEN StrLessFrom(a, b, i + 1)
    ELSE CharRank(Ch(a, i)) < CharRank(Ch(b, i))
\* a < b on str
StrLess(a, b) == StrLessFrom(a, b, 1)

RECURSIVE InsertStr(_, _)
InsertStr(sorted, p) ==
    IF sorted = <<>> THEN <<p>>
    ELSE IF StrLess(p, Head(sorted)) THEN <<p>> \o sorted
    ELSE <<Head(sorted)>> \o InsertStr(Tail(sorted), p)
RECURSIVE SortStr(_)
\* files.sort()
SortStr(fl) ==
    IF fl = <<>> THEN <<>>
    ELSE CHOOSE r \in {InsertStr(sorted, Head(fl)) : sorted \in {SortStr(Tail(fl))}} : TRUE

DEFAULT_IGNORE_DIRS == {".git", ".venv", "__pycache__", "node_modules", ".pytest_cache",
                        ".mypy_cache"}

\* a directory on the way to the file has a name of ignore_dirs: os.walk never
\* enters it after it was removed from dirs
UnderIgnored(p, ignore_dirs) ==
    \E i \in 1..(Len(Split(p, 1, "")) - 1) : Split(p, 1, "")[i] \in ignore_dirs

\* the files list_files returns when os.walk reaches the files of the tree in
\* the order `walk`: the walk stops at the append that makes len(files) reach
\* the limit and returns what it has, else the collected paths are sorted
collect_files(walk, ignore_dirs, limit) ==
    IF Len(SelectSeq(walk, LAMBDA p : ~UnderIgnored(p, ignore_dirs))) >= Max(1, limit)
    THEN SubSeq(SelectSeq(walk, LAMBDA p : ~UnderIgnored(p, ignore_dirs)), 1, Max(1, limit))
    ELSE SortStr(SelectSeq(walk, LAMBDA p : ~UnderIgnored(p, ignore_dirs)))

ErrListFiles == "RuntimeError: Tool failure"
\* list_files(repo_path, max_files=list_max_files): raises, or returns the relative
\* paths of the repository
list_files(walk) ==
    IF listWorks
    THEN [raised |-> FALSE, error |-> NoneVal,
          files |-> collect_files(walk, DEFAULT_IGNORE_DIRS, list_max_files)]
    ELSE [raised |-> TRUE, files |-> <<>>, error |-> ErrListFiles]

\* the entries of TEXT_EXTENSIONS that a name of the model can have
TEXT_EXTENSIONS == {".py", ".md", ".txt", ".json", ".env", ".sh"}

\* what the file system holds at a normalised path below the root: "regular",
\* "directory", "symlink" (the last component is a symbolic link), "escapes"
\* (not a link itself, but its real path lies outside the root: a directory
\* on the way is a link that leads out), or "absent"
FsKind(norm) == IF norm \in DOMAIN fs THEN fs[norm] ELSE "absent"

\* norm.startswith("..") or os.path.isabs(norm)
IsTraversalPath(norm) == StartsWith(norm, "..") \/ isabs(norm)
\* an islink that sees no symbolic link
islink_never(norm) == FALSE

\* os.path.islink(full_path)
islink(norm) == FsKind(norm) = "symlink"
\* full_real is neither repo_real nor below it
EscapesRoot(norm) == FsKind(norm) = "escapes"
\* os.path.isfile(full_real)
isfile(norm) == FsKind(norm) = "regular"
\* ext and ext not in allowed_extensions; the extensions of the model's names
\* are lower-case, lower() leaves them as they are
IsUnsupported(norm) == splitext(norm) # "" /\ splitext(norm) \notin TEXT_EXTENSIONS

ErrTraversal == "ValueError: Invalid rel_path (path traversal blocked)"
ErrSymlink == "ValueError: Symlink not allowed"
ErrEscape == "ValueError: Path escapes repo via symlink/realpath"
ErrNotFound == "FileNotFoundError: File not found"
ErrInjected == "RuntimeError: Tool failure"
ErrBinary == "Unsupported/binary file type"
ErrAllFailed == "All read attempts failed"

\* the text of line i of a regular text file
LineText(f, i) == IF i = 1 THEN "def Login(user):" ELSE "code"
\* f"{n}| {line}"
NumberedLine(n, text) == Fmt("{}| {}", <<text>>, <<n>>)

ReadRaise(e) ==
    [raised |-> TRUE, error |-> e, path |-> NoneVal, lines |-> <<>>,
     total_lines |-> 0, truncated |-> FALSE, is_binary |-> FALSE]

\* read_file on a regular text file of `total` lines: the lines it returns
\* a read_file whose chunk reads number the returned lines from 1
read_text_numbering_from_one(rel_path, total, max_lines, line_start, line_end) ==
    IF line_start # 0 \/ line_end # 0
    THEN LET ls == IF line_start = 0 THEN 1 ELSE Max(1, line_start)
             le == IF line_end = 0 THEN total ELSE Max(ls, line_end)
             hi == Min(le, total)
             cnt == IF hi >= ls THEN hi - ls + 1 ELSE 0
         IN [raised |-> FALSE, error |-> NoneVal, path |-> rel_path,
             lines |-> [i \in 1..cnt |->
                          NumberedLine((i - 1) + 1, LineText(rel_path, ls + i - 1))],
             total_lines |-> total, truncated |-> FALSE, is_binary |-> FALSE]
    ELSE LET cnt == Min(total, max_lines)
         IN [raised |-> FALSE, error |-> NoneVal, path |-> rel_path,
             lines |-> [i \in 1..cnt |->
                          NumberedLine((i - 1) + 1, LineText(rel_path, i))],
             total_lines |-> total, truncated |-> total > max_lines,
             is_binary |-> FALSE]

read_text(rel_path, total, max_lines, line_start, line_end) ==
    IF line_start # 0 \/ line_end # 0
    THEN LET ls == IF line_start = 0 THEN 1 ELSE Max(1, line_start)
             le == IF line_end = 0 THEN total ELSE Max(ls, line_end)
             hi == Min(le, total)
             cnt == IF hi >= ls THEN hi - ls + 1 ELSE 0
         IN [raised |-> FALSE, error |-> NoneVal, path |-> rel_path,
             lines |-> [i \in 1..cnt |->
                          NumberedLine((ls - 1) + (i - 1) + 1,
                                       LineText(rel_path, ls + i - 1))],
             total_lines |-> total, truncated |-> FALSE, is_binary |-> FALSE]
    ELSE LET cnt == Min(total, max_lines)
         IN [raised |-> FALSE, error |-> NoneVal, path |-> rel_path,
             lines |-> [i \in 1..cnt |->
                          NumberedLine((i - 1) + 1, LineText(rel_path, i))],
             total_lines |-> total, truncated |-> total > max_lines,
             is_binary |-> FALSE]

\* read_file on a file that is not of a text type
read_binary(rel_path) ==
    [raised |-> FALSE, error |-> ErrBinary, path |-> rel_path, lines |-> <<>>,
     total_lines |-> 0, truncated |-> FALSE, is_binary |-> TRUE]

\* the body of read_file once norm = os.path.normpath(rel_path) is known
read_norm(norm, max_lines, line_start, line_end) ==
    IF IsTraversalPath(norm) THEN ReadRaise(ErrTraversal)
    ELSE IF islink(norm) THEN ReadRaise(ErrSymlink)
    ELSE IF EscapesRoot(norm) THEN ReadRaise(ErrEscape)
    ELSE IF ~isfile(norm) THEN ReadRaise(ErrNotFound)
    ELSE IF IsUnsupported(norm) THEN read_binary(norm)
    ELSE read_text(norm, FileLines, max_lines, line_start, line_end)

\* read_file(repo_path, rel_path, max_lines, line_start, line_end); a line
\* bound of 0 stands for None. The path is normalised once, as in the code.
read_file(rel_path, max_lines, line_start, line_end) ==
    CHOOSE r \in {read_norm(norm, max_lines, line_start, line_end) :
                     norm \in {normpath(rel_path)}} : TRUE

----------------------------------------------------------------------------
(* Executor: agent/executor.py *)

\* _extract_task_files on the tasks of the model
_extract_task_files(t) == TaskNames(t)
\* _extract_task_line_numbers on the tasks of the model: <<start, end>> pairs
_extract_task_line_numbers(t) == IF t = TaskLine THEN <<<<300, 300>>>> ELSE <<>>

\* score(p) of _pick_files_to_read on the names of the model
score(p) ==
    CASE p = "main.py" -> 0     \* entry point
      [] p # "main.py" /\ EndsWith(p, ".py") -> 4      \* code file
      [] OTHER -> 10

\* the sort key (score(p), p)
KeyLess(p, q) == score(p) < score(q) \/ (score(p) = score(q) /\ FileRank(p) < FileRank(q))

RECURSIVE InsertSorted(_, _)
InsertSorted(sorted, p) ==
    IF sorted = <<>> THEN <<p>>
    ELSE IF KeyLess(p, Head(sorted)) THEN <<p>> \o sorted
    ELSE <<Head(sorted)>> \o InsertSorted(Tail(sorted), p)

RECURSIVE SortByKey(_)
SortByKey(fl) ==
    IF fl = <<>> THEN <<>> ELSE InsertSorted(SortByKey(Tail(fl)), Head(fl))

_pick_files_to_read(all_files, max_files) ==
    SubSeq(SortByKey(all_files), 1, Min(max_files, Len(all_files)))

InSeq(x, sq) == \E i \in 1..Len(sq) : sq[i] = x

\* lf.endswith(tf) or tf.endswith(lf)
PathMatches(lf, tf) == EndsWith(lf, tf) \/ EndsWith(tf, lf)

RECURSIVE task_mentioned(_, _, _)
\* the listed files matched by the task's file names, in task order
task_mentioned(tfs, listed, acc) ==
    IF tfs = <<>> THEN acc
    ELSE LET hits == {i \in 1..Len(listed) : PathMatches(listed[i], Head(tfs))}
             first == CHOOSE i \in hits : \A j \in hits : i <= j
         IN task_mentioned(Tail(tfs), listed,
               IF hits # {} /\ ~InSeq(listed[first], acc)
               THEN Append(acc, listed[first]) ELSE acc)

\* the files the "Read relevant files" step reads, in order
files_to_read(t, listed) ==
    IF listed = <<>> /\ _extract_task_files(t) # <<>> THEN _extract_task_files(t)
    ELSE IF listed = <<>> THEN <<"main.py">>
    ELSE LET mentioned == task_mentioned(_extract_task_files(t), listed, <<>>)
             remaining == SelectSeq(listed, LAMBDA f : ~InSeq(f, mentioned))
             ranked_remaining == _pick_files_to_read(remaining, ReadCap)
             all == mentioned \o SelectSeq(ranked_remaining, LAMBDA f : ~InSeq(f, mentioned))
         IN SubSeq(all, 1, Min(ReadCap, Len(all)))

ListToolCall(res) ==
    [tool |-> "list_files", path |-> NoneVal,
     returned |-> Len(res.files), attempt |-> 0, is_binary |-> FALSE,
     error |-> res.error,
     result_status |-> IF res.raised THEN "error" ELSE "success"]

ListEvidence(res) ==
    [tool |-> "list_files", path |-> NoneVal, files |-> res.files, lines |-> <<>>,
     total_lines |-> Len(res.files), truncated |-> FALSE, is_binary |-> FALSE,
     error |-> NoneVal]

ReadToolCall(rel_path, res, att) ==
    [tool |-> "read_file", path |-> rel_path,
     returned |-> Len(res.lines), attempt |-> att, is_binary |-> res.is_binary,
     error |-> res.error,
     result_status |-> IF res.raised THEN "error" ELSE "success"]

ReadEvidence(res) ==
    [tool |-> "read_file", path |-> res.path, files |-> <<>>, lines |-> res.lines,
     total_lines |-> res.total_lines, truncated |-> res.truncated,
     is_binary |-> res.is_binary, error |-> res.error]

\* the evidence item of an exhausted file without the error marker
AllFailedEvidence_no_marker(rel_path) ==
    [tool |-> "read_file", path |-> rel_path, files |-> <<>>, lines |-> <<>>,
     total_lines |-> 0, truncated |-> FALSE, is_binary |-> FALSE,
     error |-> NoneVal]

AllFailedEvidence(rel_path) ==
    [tool |-> "read_file", path |-> rel_path, files |-> <<>>, lines |-> <<>>,
     total_lines |-> 0, truncated |-> FALSE, is_binary |-> FALSE,
     error |-> ErrAllFailed]

ExecUnchanged == UNCHANGED <<envVars, plan, output, schema_valid, citations_valid,
                             schema_errors, citation_errors, llm_attempts,
                             max_llm_attempts, last_validation_feedback,
                             route_decision, modelCalls, summarizeRuns, lastWrite,
                             prompts>>

InStep(name) ==
    /\ pc = "execute"
    /\ stepIdx <= Len(plan)
    /\ plan[stepIdx] = name

\* execute_plan, step "List repository files"
exec_list_files ==
    /\ InStep("List repository files")
    /\ \E res \in {list_files(SelectFiles(WideFiles, 1))} :
        /\ tool_calls' = Append(tool_calls, ListToolCall(res))
        /\ retrieved_files' = IF res.raised THEN retrieved_files
                              ELSE Append(retrieved_files, ListEvidence(res))
        /\ listed_files' = IF res.raised THEN listed_files ELSE res.files
        /\ list_files_succeeded' = IF res.raised THEN list_files_succeeded ELSE TRUE
    /\ stepIdx' = stepIdx + 1
    /\ UNCHANGED <<pc, global_failures, to_read, readIdx, attempt, use_chunk_fallback,
                   injected, readArgs>>
    /\ ExecUnchanged

\* execute_plan, step "Read relevant files": the choice of to_read
exec_select_files ==
    /\ InStep("Read relevant files")
    /\ readIdx = 0
    /\ IF list_files_succeeded /\ listed_files = <<>>
       THEN /\ stepIdx' = stepIdx + 1
            /\ UNCHANGED <<to_read, readIdx, attempt>>
       ELSE /\ to_read' = files_to_read(task, listed_files)
            /\ readIdx' = 1
            /\ attempt' = 1
            /\ UNCHANGED stepIdx
    /\ UNCHANGED <<pc, tool_calls, retrieved_files, listed_files, list_files_succeeded,
                   global_failures, use_chunk_fallback, injected, readArgs>>
    /\ ExecUnchanged

\* the (line_start, line_end) a task with one line range beyond the threshold asks for
TaskChunk(t) ==
    LET tl == _extract_task_line_numbers(t) IN
    IF Len(tl) = 1 /\ tl[1][1] > TaskLineThreshold
    THEN <<Max(1, tl[1][1] - TaskLinePadding), tl[1][2] + TaskLinePadding>>
    ELSE <<0, 0>>

\* the read_file call of one attempt that repeats the full read after a failure
read_args_always_full(t, rel_path, fallback) ==
    IF TaskChunk(t)[1] # 0
    THEN [path |-> rel_path, max_lines |-> ChunkFallbackEnd,
          line_start |-> TaskChunk(t)[1], line_end |-> TaskChunk(t)[2]]
    ELSE [path |-> rel_path, max_lines |-> FullReadMaxLines, line_start |-> 0, line_end |-> 0]

\* the arguments of the read_file call of one attempt of _read_with_retries; a
\* line bound of 0 stands for None, and a call that names no max_lines gets
\* read_file's default, which equals the end of the fallback chunk
read_args(t, rel_path, fallback) ==
    IF TaskChunk(t)[1] # 0
    THEN [path |-> rel_path, max_lines |-> ChunkFallbackEnd,
          line_start |-> TaskChunk(t)[1], line_end |-> TaskChunk(t)[2]]
    ELSE IF fallback
    THEN [path |-> rel_path, max_lines |-> ChunkFallbackEnd,
          line_start |-> 1, line_end |-> ChunkFallbackEnd]
    ELSE [path |-> rel_path, max_lines |-> FullReadMaxLines, line_start |-> 0, line_end |-> 0]

\* the read_file call of one attempt of _read_with_retries
read_attempt(t, rel_path, fallback) ==
    read_file(rel_path, read_args(t, rel_path, fallback).max_lines,
              read_args(t, rel_path, fallback).line_start,
              read_args(t, rel_path, fallback).line_end)

\* the file loop of execute_plan without the global budget test
NextFile_no_global_budget(gf) ==
    IF readIdx + 1 > Len(to_read)
    THEN /\ stepIdx' = stepIdx + 1
         /\ readIdx' = 0
         /\ attempt' = 0
         /\ to_read' = <<>>
    ELSE /\ readIdx' = readIdx + 1
         /\ attempt' = 1
         /\ UNCHANGED <<stepIdx, to_read>>

\* after the current file: the next file of to_read, or the end of the step
NextFile(gf) ==
    IF readIdx + 1 > Len(to_read) \/ gf >= MAX_GLOBAL_RETRIES
    THEN /\ stepIdx' = stepIdx + 1
         /\ readIdx' = 0
         /\ attempt' = 0
         /\ to_read' = <<>>
    ELSE /\ readIdx' = readIdx + 1
         /\ attempt' = 1
         /\ UNCHANGED <<stepIdx, to_read>>

\* one attempt of _read_with_retries for to_read[readIdx]
exec_read_attempt ==
    /\ InStep("Read relevant files")
    /\ readIdx >= 1
    /\ \E inject \in BOOLEAN :
        /\ inject => injected < MaxInjected
        /\ injected' = IF inject THEN injected + 1 ELSE injected
        /\ \E rel_path \in {to_read[readIdx]} :
           \E res \in {IF inject THEN ReadRaise(ErrInjected)
                       ELSE read_attempt(task, rel_path, use_chunk_fallback)} :
              IF ~res.raised
              THEN /\ tool_calls' = Append(tool_calls, ReadToolCall(rel_path, res, attempt))
                   /\ retrieved_files' = Append(retrieved_files, ReadEvidence(res))
                   /\ UNCHANGED global_failures
                   /\ use_chunk_fallback' = FALSE
                   /\ NextFile(global_failures)
              ELSE /\ global_failures' = global_failures + 1
                   /\ tool_calls' = Append(tool_calls, ReadToolCall(rel_path, res, attempt))
                   /\ IF attempt < MAX_FILE_RETRIES
                         /\ global_failures + 1 < MAX_GLOBAL_RETRIES
                      THEN /\ use_chunk_fallback' = TRUE
                           /\ attempt' = attempt + 1
                           /\ UNCHANGED <<retrieved_files, stepIdx, readIdx, to_read>>
                      ELSE /\ retrieved_files' =
                                Append(retrieved_files, AllFailedEvidence(rel_path))
                           /\ use_chunk_fallback' = FALSE
                           /\ NextFile(global_failures + 1)
    /\ readArgs' = Append(readArgs, read_args(task, to_read[readIdx], use_chunk_fallback))
    /\ UNCHANGED <<pc, listed_files, list_files_succeeded>>
    /\ ExecUnchanged

\* execute_plan, the steps that call no tool
exec_other_step ==
    /\ pc = "execute"
    /\ stepIdx <= Len(plan)
    /\ plan[stepIdx] \notin {"List repository files", "Read relevant files"}
    /\ stepIdx' = stepIdx + 1
    /\ UNCHANGED <<pc, tool_calls, retrieved_files, listed_files, list_files_succeeded,
                   global_failures, to_read, readIdx, attempt, use_chunk_fallback,
                   injected, readArgs>>
    /\ ExecUnchanged

\* execute_plan returns: its locals are dropped
exec_return ==
    /\ pc = "execute"
    /\ stepIdx > Len(plan)
    /\ pc' = "analyze"
    /\ stepIdx' = 1
    /\ listed_files' = <<>>
    /\ list_files_succeeded' = FALSE
    /\ global_failures' = 0
    /\ to_read' = <<>>
    /\ readIdx' = 0
    /\ attempt' = 0
    /\ use_chunk_fallback' = FALSE
    /\ UNCHANGED <<tool_calls, retrieved_files, injected, readArgs>>
    /\ ExecUnchanged

node_execute ==
    \/ exec_list_files
    \/ exec_select_files
    \/ exec_read_attempt
    \/ exec_other_step
    \/ exec_return

----------------------------------------------------------------------------
(* Analyzer: agent/analyzer.py *)

\* _is_path_traversal_task (the analyzer's and the verifier's pattern list)
_is_path_traversal_task(t) == HasUnixTraversal(t) \/ HasWindowsPath(t)

\* fname_lower in task_lower or basename in task_lower
_task_targets_file(t, filename) == InSeq(filename, TaskNames(t))

\* the first file name of the task with no listed file ending in it, or None
_task_mentions_missing_file(t, listed) ==
    LET tf == TaskNames(t)
        miss == {i \in 1..Len(tf) : ~InSeq(tf[i], listed)}
    IN IF miss = {} THEN NoneVal
       ELSE tf[CHOOSE i \in miss : \A j \in miss : i <= j]

_all_tools_failed(tcs) ==
    \/ tcs = <<>>
    \/ \A i \in 1..Len(tcs) : tcs[i].result_status # "success"

\* the files of the first list_files evidence item, or []
_get_listed_files(rf) ==
    LET hits == {i \in 1..Len(rf) : rf[i].tool = "list_files"}
    IN IF hits = {} THEN <<>>
       ELSE rf[CHOOSE i \in hits : \A j \in hits : i <= j].files

RECURSIVE PathsOf(_)
PathsOf(items) ==
    IF items = <<>> THEN <<>> ELSE <<Head(items).path>> \o PathsOf(Tail(items))

\* truthiness of an optional error string
HasError(x) == x.error # NoneVal

_get_binary_files(rf) ==
    PathsOf(SelectSeq(rf, LAMBDA x : x.tool = "read_file" /\ x.is_binary))

_get_error_files(rf) ==
    PathsOf(SelectSeq(rf, LAMBDA x : x.tool = "read_file" /\ HasError(x) /\ ~x.is_binary))

\* _fallback_output giving every pre-built answer confidence low
_fallback_output_always_low(summary, confidence) ==
    [summary |-> JStr(summary), high_risk_areas |-> JList(<<>>),
     confidence |-> JStr("low")]

\* _fallback_output with the "error" key of the all-tools-failed payload
_fallback_output_with_error_key(summary, confidence) ==
    [error |-> JStr(summary), summary |-> JStr(summary), high_risk_areas |-> JList(<<>>),
     confidence |-> JStr(confidence)]

_fallback_output(summary, confidence) ==
    [summary |-> JStr(summary), high_risk_areas |-> JList(<<>>),
     confidence |-> JStr(confidence)]

SummaryAllToolsFailed == Lit("Cannot analyze: all tool operations failed.")
SummaryTraversal ==
    Lit("Cannot analyze: the requested path appears to be outside repository boundaries. This is a path traversal security issue. Only files within the repository can be analyzed.")
SummaryEmptyRepo == Lit("Repository is empty, no files to analyze.")
SummaryBinary(bf) ==
    Fmt("{} is a binary file and cannot analyze its contents as text. Binary files require specialized tools for inspection.", <<bf>>, <<>>)
SummaryReadsFailed(error_files) ==
    Fmt("Cannot analyze: all file reads failed ({}).",
        IF error_files # <<>> THEN error_files ELSE <<"all files">>, <<>>)

ErrorOutput ==
    [error |-> JStr(Lit("Agent failed: all tool operations failed.")),
     summary |-> JStr(SummaryAllToolsFailed)]

\* readable_files counting every read_file item that is not binary
readable_files_ignoring_errors(rf) ==
    SelectSeq(rf, LAMBDA x : x.tool = "read_file" /\ ~x.is_binary)

readable_files(rf) ==
    SelectSeq(rf, LAMBDA x : /\ x.tool = "read_file"
                             /\ ~x.is_binary
                             /\ ~HasError(x)
                             /\ x.lines # <<>>)

RECURSIVE NotesFor(_, _)
NotesFor(tpl, paths) ==
    IF paths = <<>> THEN <<>>
    ELSE <<JStr(Fmt(tpl, <<Head(paths)>>, <<>>))>> \o NotesFor(tpl, Tail(paths))

\* the context notes of route 6
context_notes(t, rf) ==
    LET missing == _task_mentions_missing_file(t, _get_listed_files(rf))
    IN (IF missing # NoneVal
        THEN <<JStr(Fmt("MISSING FILE: {} not found. {} is not available for analysis.",
                        <<missing, missing>>, <<>>))>>
        ELSE <<>>)
       \o NotesFor("NOTE: {} is a binary file", _get_binary_files(rf))
       \o NotesFor("NOTE: {} could not be read (error)", _get_error_files(rf))

\* the binary files the task targets, in evidence order
TargetedBinary(t, rf) ==
    SelectSeq(_get_binary_files(rf), LAMBDA bf : _task_targets_file(t, bf))

\* analyze_evidence testing "all reads failed" before "empty repository"
route_rule_reads_first(t, tcs, rf) ==
    IF _all_tools_failed(tcs) THEN 1
    ELSE IF _is_path_traversal_task(t) THEN 2
    ELSE IF readable_files(rf) = <<>> THEN 5
    ELSE IF _get_listed_files(rf) = <<>> THEN 3
    ELSE IF TargetedBinary(t, rf) # <<>> THEN 4
    ELSE 6

\* analyze_evidence testing the binary target before the traversal pattern
route_rule_binary_first(t, tcs, rf) ==
    IF _all_tools_failed(tcs) THEN 1
    ELSE IF TargetedBinary(t, rf) # <<>> THEN 4
    ELSE IF _get_listed_files(rf) = <<>> THEN 3
    ELSE IF _is_path_traversal_task(t) THEN 2
    ELSE IF readable_files(rf) = <<>> THEN 5
    ELSE 6

\* analyze_evidence: the number of the first route that matches (1..6)
route_rule(t, tcs, rf) ==
    IF _all_tools_failed(tcs) THEN 1
    ELSE IF _is_path_traversal_task(t) THEN 2
    ELSE IF _get_listed_files(rf) = <<>> THEN 3
    ELSE IF TargetedBinary(t, rf) # <<>> THEN 4
    ELSE IF readable_files(rf) = <<>> THEN 5
    ELSE 6

\* analyze_evidence: <<route_decision, output>>
analyze_evidence(t, tcs, rf) ==
    LET r == route_rule(t, tcs, rf) IN
    CASE r = 1 -> <<"error", ErrorOutput>>
      [] r = 2 -> <<"skip_llm", _fallback_output(SummaryTraversal, "high")>>
      [] r = 3 -> <<"skip_llm", _fallback_output(SummaryEmptyRepo, "high")>>
      [] r = 4 -> <<"skip_llm",
                    _fallback_output(SummaryBinary(Head(TargetedBinary(t, rf))), "high")>>
      [] r = 5 -> <<"skip_llm",
                    _fallback_output(SummaryReadsFailed(_get_error_files(rf)), "low")>>
      [] OTHER -> <<"call_llm", [_context_notes |-> JList(context_notes(t, rf))]>>

node_analyze ==
    /\ pc = "analyze"
    /\ route_decision' = analyze_evidence(task, tool_calls, retrieved_files)[1]
    /\ output' = analyze_evidence(task, tool_calls, retrieved_files)[2]
    /\ lastWrite' = "analyze"
    /\ pc' = "route_after_analyze"
    /\ UNCHANGED <<envVars, plan, tool_calls, retrieved_files, schema_valid,
                   citations_valid, schema_errors, citation_errors, llm_attempts,
                   max_llm_attempts, last_validation_feedback, execVars,
                   modelCalls, summarizeRuns, injected, readArgs, prompts>>

\* route_after_analyze sending only "error" away from the model
route_after_analyze_target_skip_to_llm(decision) ==
    IF decision = "error" THEN "handle_error" ELSE "summarize"

\* route_after_analyze: the node that follows analyze
route_after_analyze_target(decision) ==
    IF decision = "error" THEN "handle_error"
    ELSE IF decision = "skip_llm" THEN "finalize"
    ELSE "summarize"

route_after_analyze ==
    /\ pc = "route_after_analyze"
    /\ pc' = route_after_analyze_target(route_decision)
    /\ UNCHANGED <<envVars, agentVars, execVars, histVars>>

----------------------------------------------------------------------------
(* Schema validator: eval/schema_validate.py *)

\* type(v).__name__
TypeName(v) == IF v.t = "null" THEN "NoneType" ELSE v.t

ItemKeys == {"file_path", "line_start", "line_end", "description"}
ItemKeyOrder == <<"file_path", "line_start", "line_end", "description">>
RequiredKeys == {"summary", "high_risk_areas", "confidence"}
Confidences == {"low", "medium", "high"}

\* confidence in ("low", "medium", "high")
IsConfidence(v) == IsStr(v) /\ v.s \in Confidences

\* the errors of a citation when only its type and key set are checked
SchemaItemErrors_keys_only(item, i) ==
    IF ~IsDict(item)
    THEN <<Fmt("high_risk_areas[{}] must be dict, got {}", <<TypeName(item)>>, <<i>>)>>
    ELSE IF DOMAIN item.d # ItemKeys
    THEN <<FmtK("high_risk_areas[{}] has extra or missing fields: {}", <<>>, <<i>>,
                DOMAIN item.d)>>
    ELSE <<>>

\* the errors of the citation at (0-based) index i
SchemaItemErrors(item, i) ==
    IF ~IsDict(item)
    THEN <<Fmt("high_risk_areas[{}] must be dict, got {}", <<TypeName(item)>>, <<i>>)>>
    ELSE IF DOMAIN item.d # ItemKeys
    THEN (IF DOMAIN item.d \ ItemKeys # {}
          THEN <<FmtK("high_risk_areas[{}] has extra fields: {}", <<>>, <<i>>,
                      DOMAIN item.d \ ItemKeys)>>
          ELSE <<>>)
         \o (IF ItemKeys \ DOMAIN item.d # {}
             THEN <<FmtK("high_risk_areas[{}] missing fields: {}", <<>>, <<i>>,
                         ItemKeys \ DOMAIN item.d)>>
             ELSE <<>>)
    ELSE LET d == item.d
             typeErr(key, ok, want) ==
                 IF ok THEN <<>>
                 ELSE <<Fmt("high_risk_areas[{}].{} must be {}, got {}",
                            <<key, want, TypeName(d[key])>>, <<i>>)>>
             nested(key) ==
                 IF IsList(d[key]) \/ IsDict(d[key])
                 THEN <<Fmt("high_risk_areas[{}].{} contains nested structure ({}), only primitives allowed",
                            <<key, TypeName(d[key])>>, <<i>>)>>
                 ELSE <<>>
         IN typeErr("file_path", IsStr(d["file_path"]), "str")
            \o typeErr("line_start", IsInt(d["line_start"]), "int")
            \o typeErr("line_end", IsInt(d["line_end"]), "int")
            \o typeErr("description", IsStr(d["description"]), "str")
            \o nested(ItemKeyOrder[1]) \o nested(ItemKeyOrder[2])
            \o nested(ItemKeyOrder[3]) \o nested(ItemKeyOrder[4])

RECURSIVE SchemaItemsErrors(_, _)
SchemaItemsErrors(items, i) ==
    IF i > Len(items) THEN <<>>
    ELSE SchemaItemErrors(items[i], i - 1) \o SchemaItemsErrors(items, i + 1)

\* validate_output_schema(output) for a dict output: the error list
schema_errors_of(out) ==
    IF DOMAIN out # RequiredKeys
    THEN (IF DOMAIN out \ RequiredKeys # {}
          THEN <<FmtK("Extra fields not allowed: {}", <<>>, <<>>, DOMAIN out \ RequiredKeys)>>
          ELSE <<>>)
         \o (IF RequiredKeys \ DOMAIN out # {}
             THEN <<FmtK("Missing required fields: {}", <<>>, <<>>, RequiredKeys \ DOMAIN out)>>
             ELSE <<>>)
    ELSE IF ~IsStr(out["summary"])
    THEN <<Fmt("summary must be str, got {}", <<TypeName(out["summary"])>>, <<>>)>>
    ELSE IF ~IsConfidence(out["confidence"])
    THEN <<Fmt("confidence must be 'low', 'medium', or 'high', got {}",
               <<TypeName(out["confidence"])>>, <<>>)>>
    ELSE IF ~IsList(out["high_risk_areas"])
    THEN <<Fmt("high_risk_areas must be list, got {}",
               <<TypeName(out["high_risk_areas"])>>, <<>>)>>
    ELSE SchemaItemsErrors(out["high_risk_areas"].l, 1)

\* validate_output_schema: <<is_valid, error_list>>
validate_output_schema(out) ==
    <<schema_errors_of(out) = <<>>, schema_errors_of(out)>>

----------------------------------------------------------------------------
(* Citation validator: eval/citation_validate.py *)

\* the integer a line bound denotes (True is 1, False is 0)
LineOf(v) == IF v.t = "bool" THEN (IF v.b THEN 1 ELSE 0) ELSE v.n
\* LINE_PREFIX_RE on a numbered line: the line number before the '|'
LineNumberOf(line) == line.n[1]
IsNumberedLine(line) == line.tpl = "{}| {}" /\ Len(line.n) = 1

\* the line numbers of one evidence item
line_data(item) ==
    {LineNumberOf(item.lines[j]) :
        j \in {k \in 1..Len(item.lines) : IsNumberedLine(item.lines[k])}}

\* the paths of evidence_map
EvidencePaths(rf) ==
    {rf[i].path : i \in {j \in 1..Len(rf) :
        rf[j].tool = "read_file" /\ rf[j].path # NoneVal /\ line_data(rf[j]) # {}}}

\* evidence_map[path]: the line numbers of the last item that has some for path
evidence_lines(rf, path) ==
    LET hits == {j \in 1..Len(rf) :
                    rf[j].tool = "read_file" /\ rf[j].path = path /\ line_data(rf[j]) # {}}
    IN line_data(rf[CHOOSE j \in hits : \A k \in hits : k <= j])

\* the greatest element where the least is wanted
SetMin_greatest(S) == CHOOSE x \in S : \A y \in S : x >= y

SetMin(S) == CHOOSE x \in S : \A y \in S : x <= y
SetMax(S) == CHOOSE x \in S : \A y \in S : x >= y

\* truthiness of output.get("high_risk_areas", [])
Truthy(v) ==
    CASE v.t = "list" -> v.l # <<>>
      [] v.t = "null" -> FALSE
      [] v.t = "int" -> v.n # 0
      [] v.t = "bool" -> v.b
      [] v.t = "dict" -> DOMAIN v.d # {}
      [] OTHER -> TRUE

\* one iteration of the citation loop that stops after the file test
check_citation_file_only(area, i, rf, seen, reject_nonpositive) ==
    IF ~IsDict(area)
    THEN [errs |-> <<Fmt("Citation {} is not a dict", <<>>, <<i>>)>>, key |-> <<>>]
    ELSE LET fp == Get(area.d, "file_path")
             ls == Get(area.d, "line_start")
             le == Get(area.d, "line_end")
         IN
         IF ~IsStr(fp) \/ ~IsInt(ls) \/ ~IsInt(le)
         THEN [errs |-> <<Fmt("Citation {}: wrong type", <<>>, <<i>>)>>, key |-> <<>>]
         ELSE LET a == IF ls.t = "bool" THEN (IF ls.b THEN 1 ELSE 0) ELSE ls.n
                  b == IF le.t = "bool" THEN (IF le.b THEN 1 ELSE 0) ELSE le.n
                  k == <<fp.s, a, b>>
              IN
              IF k \in seen
              THEN [errs |-> <<Fmt("Duplicate citation: {} lines {}-{}", <<fp.s>>, <<a, b>>)>>,
                    key |-> <<>>]
              ELSE IF a > b
              THEN [errs |-> <<Fmt("Citation {}: line_start ({}) > line_end ({})",
                                   <<>>, <<i, a, b>>)>>,
                    key |-> <<k>>]
              ELSE IF fp.s \notin EvidencePaths(rf)
              THEN [errs |-> <<Fmt("Citation {}: file '{}' not found in retrieved evidence",
                                   <<fp.s>>, <<i>>)>>,
                    key |-> <<k>>]
              ELSE [errs |-> <<>>, key |-> <<k>>]

\* one iteration of the citation loop: <<error or none, the key added to seen or none>>
check_citation(area, i, rf, seen, reject_nonpositive) ==
    IF ~IsDict(area)
    THEN [errs |-> <<Fmt("Citation {} is not a dict", <<>>, <<i>>)>>, key |-> <<>>]
    ELSE LET fp == Get(area.d, "file_path")
             ls == Get(area.d, "line_start")
             le == Get(area.d, "line_end")
         IN
         IF ~IsStr(fp)
         THEN [errs |-> <<Fmt("Citation {}: file_path is not a string", <<>>, <<i>>)>>,
               key |-> <<>>]
         ELSE IF ~IsInt(ls)
         THEN [errs |-> <<Fmt("Citation {}: line_start is not an int", <<>>, <<i>>)>>,
               key |-> <<>>]
         ELSE IF ~IsInt(le)
         THEN [errs |-> <<Fmt("Citation {}: line_end is not an int", <<>>, <<i>>)>>,
               key |-> <<>>]
         ELSE LET a == IF ls.t = "bool" THEN (IF ls.b THEN 1 ELSE 0) ELSE ls.n
                  b == IF le.t = "bool" THEN (IF le.b THEN 1 ELSE 0) ELSE le.n
                  k == <<fp.s, a, b>>
              IN
              IF reject_nonpositive /\ (a < 1 \/ b < 1)
              THEN [errs |-> <<Fmt("Citation {}: invalid line number (line_start={}, line_end={}); negative or zero line numbers rejected",
                                   <<>>, <<i, a, b>>)>>,
                    key |-> <<>>]
              ELSE IF k \in seen
              THEN [errs |-> <<Fmt("Duplicate citation: {} lines {}-{}", <<fp.s>>, <<a, b>>)>>,
                    key |-> <<>>]
              ELSE IF a > b
              THEN [errs |-> <<Fmt("Citation {}: line_start ({}) > line_end ({})",
                                   <<>>, <<i, a, b>>)>>,
                    key |-> <<k>>]
              ELSE IF fp.s \notin EvidencePaths(rf)
              THEN [errs |-> <<Fmt("Citation {}: file '{}' not found in retrieved evidence",
                                   <<fp.s>>, <<i>>)>>,
                    key |-> <<k>>]
              ELSE LET avail == evidence_lines(rf, fp.s)
                       missing == {x \in a..b : x \notin avail}
                   IN IF missing = {} THEN [errs |-> <<>>, key |-> <<k>>]
                      ELSE [errs |-> <<Fmt("Citation {}: line {} in '{}' not found in evidence (evidence has lines {}-{})",
                                           <<fp.s>>,
                                           <<i, SetMin(missing), SetMin(avail), SetMax(avail)>>)>>,
                            key |-> <<k>>]

RECURSIVE citation_loop_stop_at_error(_, _, _, _, _)
\* the citation loop leaving at the first citation that fails
citation_loop_stop_at_error(areas, i, rf, seen, reject_nonpositive) ==
    IF i > Len(areas) THEN <<>>
    ELSE IF check_citation(areas[i], i - 1, rf, seen, reject_nonpositive).errs # <<>>
    THEN check_citation(areas[i], i - 1, rf, seen, reject_nonpositive).errs
    ELSE citation_loop_stop_at_error(areas, i + 1, rf, seen, reject_nonpositive)

RECURSIVE citation_loop_forgetting(_, _, _, _, _)
\* the citation loop with a seen set that is never filled
citation_loop_forgetting(areas, i, rf, seen, reject_nonpositive) ==
    IF i > Len(areas) THEN <<>>
    ELSE check_citation(areas[i], i - 1, rf, {}, reject_nonpositive).errs
         \o citation_loop_forgetting(areas, i + 1, rf, {}, reject_nonpositive)

RECURSIVE citation_loop(_, _, _, _, _)
citation_loop(areas, i, rf, seen, reject_nonpositive) ==
    IF i > Len(areas) THEN <<>>
    ELSE LET r == check_citation(areas[i], i - 1, rf, seen, reject_nonpositive)
         IN r.errs \o citation_loop(areas, i + 1, rf,
                                    seen \cup {r.key[j] : j \in 1..Len(r.key)},
                                    reject_nonpositive)

\* the characters of the plain strings of the model
Chars(s) ==
    CASE s = "none" -> <<"n", "o", "n", "e">>
      [] OTHER -> <<>>

\* what enumerate(high_risk_areas) yields for a truthy list or str
Elements(v) ==
    IF IsList(v) THEN v.l
    ELSE IF IsStr(v) THEN [i \in 1..Len(Chars(v.s)) |-> JStr(Chars(v.s)[i])]
    ELSE <<>>

\* validate_citations that rejects an empty citation list
citation_errors_of_no_empty(out, rf, reject_nonpositive) ==
    LET hra == IF "high_risk_areas" \in DOMAIN out THEN out["high_risk_areas"]
               ELSE JList(<<>>)
    IN IF ~Truthy(hra) THEN <<Lit("No citations")>>
       ELSE citation_loop(Elements(hra), 1, rf, {},
                          reject_nonpositive)

\* validate_citations(output, retrieved_files, rules): the error list
citation_errors_of(out, rf, reject_nonpositive) ==
    LET hra == IF "high_risk_areas" \in DOMAIN out THEN out["high_risk_areas"]
               ELSE JList(<<>>)
    IN IF ~Truthy(hra) THEN <<>>
       ELSE citation_loop(Elements(hra), 1, rf, {},
                          reject_nonpositive)

\* validate_citations: <<valid, errors>>
validate_citations(out, rf, reject_nonpositive) ==
    <<citation_errors_of(out, rf, reject_nonpositive) = <<>>,
      citation_errors_of(out, rf, reject_nonpositive)>>

\* evidence_map[path][n]: group 2 of LINE_PREFIX_RE on the line numbered n of
\* the last item that has numbered lines for path
evidence_text(rf, path, n) ==
    LET hits == {j \in 1..Len(rf) :
                    rf[j].tool = "read_file" /\ rf[j].path = path /\ line_data(rf[j]) # {}}
        item == rf[CHOOSE j \in hits : \A k \in hits : k <= j]
        at == {k \in 1..Len(item.lines) :
                  IsNumberedLine(item.lines[k]) /\ LineNumberOf(item.lines[k]) = n}
    IN item.lines[CHOOSE k \in at : \A m \in at : m <= k].s[1]

\* afile and must_not and aline
AssertionUsable(a) == a.file # "" /\ a.must_not_contain_text # "" /\ a.line # 0
\* the test the content loop makes on one citation for one assertion
ContentTestFails(area, a, rf) ==
    /\ IsDict(area)
    /\ Get(area.d, "file_path") = JStr(a.file)
    /\ IsInt(Get(area.d, "line_start")) /\ IsInt(Get(area.d, "line_end"))
    /\ LineOf(Get(area.d, "line_start")) <= a.line
    /\ a.line <= LineOf(Get(area.d, "line_end"))
    /\ a.file \in EvidencePaths(rf)
    /\ a.line \in evidence_lines(rf, a.file)
    /\ ~StrContains(Lower(evidence_text(rf, a.file, a.line)), Lower(a.must_not_contain_text))

ContentError(a) ==
    Fmt("Citation covers line {} in '{}' which does not contain expected text for the cited function",
        <<a.file>>, <<a.line>>)
RECURSIVE content_area_loop(_, _, _, _)
\* for area in high_risk_areas, for one assertion
content_area_loop(areas, j, a, rf) ==
    IF j > Len(areas) THEN <<>>
    ELSE (IF ContentTestFails(areas[j], a, rf) THEN <<ContentError(a)>> ELSE <<>>)
         \o content_area_loop(areas, j + 1, a, rf)
RECURSIVE content_loop(_, _, _, _)
\* for assertion in assertions
content_loop(assertions, k, areas, rf) ==
    IF k > Len(assertions) THEN <<>>
    ELSE (IF AssertionUsable(assertions[k])
          THEN content_area_loop(areas, 1, assertions[k], rf) ELSE <<>>)
         \o content_loop(assertions, k + 1, areas, rf)

\* validate_citations(output, retrieved_files, mode, rules, content_validation):
\* the error list
citation_errors_mode(out, rf, reject_nonpositive, cv) ==
    IF ~Truthy(IF "high_risk_areas" \in DOMAIN out THEN out["high_risk_areas"]
               ELSE JList(<<>>))
    THEN <<>>
    ELSE citation_loop(Elements(out["high_risk_areas"]), 1, rf, {}, reject_nonpositive)
         \o (IF cv.mode = "content_aware" /\ cv.assertions # <<>>
              THEN content_loop(cv.assertions, 1, Elements(out["high_risk_areas"]), rf)
              ELSE <<>>)

----------------------------------------------------------------------------
(* Keywords in strings *)

\* The keywords of verify_output (security_keywords) and of should_retry
\* (non_retryable) that the lower-cased plain string s contains.
PlainKeywords(s) ==
    CASE s = ErrTraversal -> {"path traversal"}
      [] s = ErrSymlink -> {"symlink", "symlink not allowed"}
      [] s = ErrBinary -> {"binary"}
      [] OTHER -> {}

\* ... that the literal text of a template contains
TemplateKeywords(tpl) ==
    CASE tpl = "Task references paths outside repository; citations cannot be validated."
             -> {"outside repository"}
      [] tpl = "Task targets binary file '{}'; citations cannot be validated."
             -> {"binary"}
      [] OTHER -> {}

\* kw in m.lower() for a formatted string m
Contains(m, kw) ==
    \/ kw \in TemplateKeywords(m.tpl)
    \/ \E i \in 1..Len(m.s) : kw \in PlainKeywords(m.s[i])

----------------------------------------------------------------------------
(* Verifier: agent/verifier.py *)

security_keywords == {"symlink", "path traversal", "escapes repo", "symlink not allowed"}

\* a read_file record (evidence item or tool call) whose error holds a security keyword
IsSecurityRecord(x) ==
    /\ x.tool = "read_file"
    /\ \E kw \in security_keywords : kw \in PlainKeywords(x.error)

SecurityError(x) == Fmt("Security error for '{}': {}", <<x.path, x.error>>, <<>>)

\* the binary evidence items whose path the task text contains
TaskBinaryItems(t, rf) ==
    SelectSeq(rf, LAMBDA x : x.tool = "read_file" /\ x.is_binary /\ InSeq(x.path, TaskNames(t)))

\* the three override rules, applied in order to <<citations_valid, citation_errors>>
security_overrides(t, rf, tcs, cv, cerrs) ==
    LET recs == SelectSeq(rf \o tcs, IsSecurityRecord)
        s1 == IF cv /\ recs # <<>>
              THEN <<FALSE, Append(cerrs, SecurityError(Head(recs)))>>
              ELSE <<cv, cerrs>>
        s2 == IF _is_path_traversal_task(t) /\ s1[1]
              THEN <<FALSE, Append(s1[2],
                        Lit("Task references paths outside repository; citations cannot be validated."))>>
              ELSE s1
        bins == TaskBinaryItems(t, rf)
        s3 == IF bins # <<>> /\ s2[1]
              THEN <<FALSE, Append(s2[2],
                        Fmt("Task targets binary file '{}'; citations cannot be validated.",
                            <<Head(bins).path>>, <<>>))>>
              ELSE s2
    IN s3

\* a feedback that leaves the citation errors out
build_feedback_schema_only(sv, serrs, cv, cerrs) ==
    IF ~sv \/ ~cv
    THEN Feedback(IF ~sv THEN <<[label |-> "SCHEMA ERRORS: ", errs |-> serrs]>> ELSE <<>>)
    ELSE NoFeedback

\* the retry feedback built from the validation result
build_feedback(sv, serrs, cv, cerrs) ==
    IF ~sv \/ ~cv
    THEN Feedback((IF ~sv THEN <<[label |-> "SCHEMA ERRORS: ", errs |-> serrs]>> ELSE <<>>)
                  \o (IF ~cv THEN <<[label |-> "CITATION ERRORS: ", errs |-> cerrs]>>
                      ELSE <<>>))
    ELSE NoFeedback

\* verify_output extending the citation errors of the previous pass
verify_output_accumulating(t, out, rf, tcs) ==
    LET sch == validate_output_schema(out)
        cit == validate_citations(out, rf, FALSE)
        ovr == security_overrides(t, rf, tcs, cit[1], citation_errors \o cit[2])
    IN [schema_valid |-> sch[1], schema_errors |-> sch[2],
        citations_valid |-> ovr[1], citation_errors |-> ovr[2],
        feedback |-> build_feedback(sch[1], sch[2], ovr[1], ovr[2])]

\* verify_output: the validation fields and the feedback it assigns
verify_output(t, out, rf, tcs) ==
    LET sch == validate_output_schema(out)
        cit == validate_citations(out, rf, FALSE)
        ovr == security_overrides(t, rf, tcs, cit[1], cit[2])
    IN [schema_valid |-> sch[1], schema_errors |-> sch[2],
        citations_valid |-> ovr[1], citation_errors |-> ovr[2],
        feedback |-> build_feedback(sch[1], sch[2], ovr[1], ovr[2])]

----------------------------------------------------------------------------
(* Summarizer: agent/summarizer.py *)

\* str.strip() on the plain strings of the model
Strip(s) ==
    CASE s = " a.py" -> "a.py"
      [] s = "  " -> ""
      [] OTHER -> s

\* the items _evidence_blob concatenates
_evidence_blob(rf) ==
    SelectSeq(rf, LAMBDA x : /\ x.tool = "read_file"
                             /\ ~(x.is_binary \/ HasError(x))
                             /\ x.lines # <<>>)

Citation(fp, ls, le, desc) ==
    JDict([file_path |-> fp, line_start |-> ls, line_end |-> le, description |-> desc])

\* whether _clean_to_schema keeps a citation entry
KeepsItem(item) ==
    /\ IsDict(item)
    /\ IsStr(Get(item.d, "file_path")) /\ Strip(Get(item.d, "file_path").s) # ""
    /\ IsStr(Get(item.d, "description")) /\ Strip(Get(item.d, "description").s) # ""
    /\ IsInt(Get(item.d, "line_start")) /\ IsInt(Get(item.d, "line_end"))

RECURSIVE cleaned_hra(_)
cleaned_hra(hra) ==
    IF hra = <<>> THEN <<>>
    ELSE (IF KeepsItem(Head(hra))
          THEN <<Citation(JStr(Strip(Head(hra).d["file_path"].s)),
                          Head(hra).d["line_start"], Head(hra).d["line_end"],
                          JStr(Strip(Head(hra).d["description"].s)))>>
          ELSE <<>>)
         \o cleaned_hra(Tail(hra))

\* _clean_to_schema returning a dict as it was parsed
_clean_to_schema_as_parsed(parsed) ==
    IF ~IsDict(parsed)
    THEN [summary |-> JStr(Lit("Invalid output type")), high_risk_areas |-> JList(<<>>),
          confidence |-> JStr("low")]
    ELSE parsed.d

_clean_to_schema(parsed) ==
    IF ~IsDict(parsed)
    THEN [summary |-> JStr(Lit("Invalid output type")), high_risk_areas |-> JList(<<>>),
          confidence |-> JStr("low")]
    ELSE LET summary == Get(parsed.d, "summary")
             confidence == Get(parsed.d, "confidence")
             hra == Get(parsed.d, "high_risk_areas")
         IN [summary |-> IF IsStr(summary) THEN summary
                         ELSE JStr(Lit("Cannot analyze reliably.")),
             high_risk_areas |-> JList(cleaned_hra(IF IsList(hra) THEN hra.l ELSE <<>>)),
             confidence |-> IF IsConfidence(confidence) THEN confidence ELSE JStr("low")]

ParseFailureOutput ==
    [summary |-> JStr(Lit("Cannot analyze reliably due to JSON parsing failure.")),
     high_risk_areas |-> JList(<<>>), confidence |-> JStr("low")]

NoEvidenceOutput ==
    [summary |-> JStr(Lit("No readable evidence found.")),
     high_risk_areas |-> JList(<<>>), confidence |-> JStr("low")]

\* A response of the model: invoke raises, or returns text that is a JSON value
\* (body) or no JSON at all (body.t = "garbage"), with or without prose around
\* it.  A code fence that opens the text is removed before parsing.
Garbage == [t |-> "garbage"]
Response(raises, prose, body) == [raises |-> raises, prose |-> prose, body |-> body]

\* json.loads of the (unfenced) text: <<parsed?, value>>
direct_parse(r) ==
    IF ~r.prose /\ r.body.t # "garbage" THEN <<TRUE, r.body>> ELSE <<FALSE, JNull>>

\* re.search(r'\{[\s\S]*\}') and json.loads of the match: <<parsed?, value>>
extract_parse(r) ==
    IF r.body.t = "dict" THEN <<TRUE, r.body>>
    ELSE IF r.body.t = "list" /\ Len(r.body.l) = 1 /\ r.body.l[1].t = "dict"
    THEN <<TRUE, r.body.l[1]>>
    ELSE <<FALSE, JNull>>

\* generate_structured_summary's result merged into the previous output
summary_of_response_merging(r) ==
    (IF r.raises THEN ParseFailureOutput
     ELSE IF direct_parse(r)[1] THEN _clean_to_schema(direct_parse(r)[2])
     ELSE IF extract_parse(r)[1] THEN _clean_to_schema(extract_parse(r)[2])
     ELSE ParseFailureOutput) @@ output

\* generate_structured_summary after the prompt is built: the output for response r
summary_of_response(r) ==
    IF r.raises THEN ParseFailureOutput
    ELSE IF direct_parse(r)[1] THEN _clean_to_schema(direct_parse(r)[2])
    ELSE IF extract_parse(r)[1] THEN _clean_to_schema(extract_parse(r)[2])
    ELSE ParseFailureOutput

\* The responses the model gives in the runs of the model.
ModelSummary == JStr(Lit("Found risky code."))
CiteA == Citation(JStr("a.py"), JInt(1), JInt(FileLines), JStr("entry"))
CiteMain == Citation(JStr(" a.py"), JInt(1), JInt(1), JStr("first line"))
CiteGhost == Citation(JStr(GhostFile), JInt(1), JInt(1), JStr("invented"))
CiteBeyond == Citation(JStr("main.py"), JInt(FileLines), JInt(FileLines + 1), JStr("tail"))
CiteReversed == Citation(JStr("a.py"), JInt(2), JInt(1), JStr("reversed"))
CiteBadType == Citation(JStr("a.py"), JStr("1"), JInt(1), JStr("typed"))
CiteBlank == Citation(JStr("  "), JInt(1), JInt(1), JStr("blank"))
CiteExtra ==
    JDict([file_path |-> JStr("main.py"), line_start |-> JBool(TRUE), line_end |-> JInt(1),
           description |-> JStr("extra"), severity |-> JStr("high")])

Report(hra, confidence) ==
    JDict([summary |-> ModelSummary, high_risk_areas |-> JList(hra),
           confidence |-> JStr(confidence)])

Responses == {
    Response(TRUE, FALSE, Garbage),
    Response(FALSE, FALSE, Garbage),
    Response(FALSE, FALSE, JList(<<JInt(1)>>)),
    Response(FALSE, FALSE, Report(<<>>, "high")),
    Response(FALSE, FALSE, Report(<<CiteA>>, "medium")),
    Response(FALSE, TRUE, Report(<<CiteMain, CiteExtra>>, "high")),
    Response(FALSE, FALSE, Report(<<CiteGhost>>, "low")),
    Response(FALSE, FALSE, Report(<<CiteA, CiteA>>, "medium")),
    Response(FALSE, TRUE, Report(<<CiteBeyond>>, "medium")),
    Response(FALSE, FALSE,
             JDict([summary |-> JInt(7), high_risk_areas |-> JList(<<CiteBadType, JStr("x"),
                                                                    CiteBlank, CiteReversed>>),
                    confidence |-> JStr("certain"), notes |-> JNull])),
    Response(FALSE, FALSE, JDict([high_risk_areas |-> JStr("none")]))
}

----------------------------------------------------------------------------
(* Orchestrator: agent/langgraph_workflow.py *)

\* _get_context_notes(state.output): the list under "_context_notes", or []
_get_context_notes(out) ==
    IF "_context_notes" \in DOMAIN out /\ IsList(out["_context_notes"])
    THEN out["_context_notes"].l ELSE <<>>

\* the variable parts of the prompt of generate_structured_summary: the
\* CONTEXT NOTES section lists the notes (when there are some), the PREVIOUS
\* ATTEMPT FAILED VALIDATION section holds the feedback (when it is not None)
Prompt(notes, feedback) == [context_notes |-> notes, retry_feedback |-> feedback]

\* node_summarize.  The model client is built outside the try block of
\* generate_structured_summary: when building it raises, the run raises.
node_summarize ==
    /\ pc = "summarize"
    /\ summarizeRuns < MaxSummarizeRuns
    /\ llm_attempts' = llm_attempts + 1
    /\ summarizeRuns' = summarizeRuns + 1
    /\ IF _evidence_blob(retrieved_files) = <<>>
       THEN /\ output' = NoEvidenceOutput
            /\ lastWrite' = "summarize"
            /\ pc' = "verify"
            /\ UNCHANGED <<modelCalls, prompts>>
       ELSE \E client_ok \in BOOLEAN :
              IF ~client_ok
              THEN /\ pc' = "raised"
                   /\ UNCHANGED <<output, modelCalls, lastWrite, prompts>>
              ELSE \E r \in Responses :
                     /\ modelCalls' = modelCalls + 1
                     /\ prompts' = Append(prompts, Prompt(_get_context_notes(output),
                                                          last_validation_feedback))
                     /\ output' = summary_of_response(r)
                     /\ lastWrite' = "summarize"
                     /\ pc' = "verify"
    /\ UNCHANGED <<envVars, plan, tool_calls, retrieved_files, schema_valid,
                   citations_valid, schema_errors, citation_errors, max_llm_attempts,
                   last_validation_feedback, route_decision, execVars, injected, readArgs>>

\* the assignments of verify_output
ApplyVerify ==
    LET v == verify_output(task, output, retrieved_files, tool_calls) IN
    /\ schema_valid' = v.schema_valid
    /\ schema_errors' = v.schema_errors
    /\ citations_valid' = v.citations_valid
    /\ citation_errors' = v.citation_errors
    /\ last_validation_feedback' = v.feedback

node_verify ==
    /\ pc = "verify"
    /\ ApplyVerify
    /\ lastWrite' = "verify"
    /\ pc' = "should_retry"
    /\ UNCHANGED <<envVars, plan, tool_calls, retrieved_files, output, llm_attempts,
                   max_llm_attempts, route_decision, execVars, modelCalls,
                   summarizeRuns, injected, readArgs, prompts>>

non_retryable == {"binary", "symlink", "path traversal", "outside repository"}

\* should_retry with "llm_attempts > max_llm_attempts" as the exhaustion test
should_retry_route_off_by_one(sv, cv, attempts, max_attempts, all_errors) ==
    IF sv /\ cv THEN "end"
    ELSE IF attempts > max_attempts THEN "end"
    ELSE IF \E i \in 1..Len(all_errors) : \E kw \in non_retryable : Contains(all_errors[i], kw)
    THEN "end"
    ELSE "retry"

\* should_retry without the exhaustion test
should_retry_route_no_budget(sv, cv, attempts, max_attempts, all_errors) ==
    IF sv /\ cv THEN "end"
    ELSE IF \E i \in 1..Len(all_errors) : \E kw \in non_retryable : Contains(all_errors[i], kw)
    THEN "end"
    ELSE "retry"

\* should_retry without the non-retryable keyword test
should_retry_route_no_keywords(sv, cv, attempts, max_attempts, all_errors) ==
    IF sv /\ cv THEN "end"
    ELSE IF attempts >= max_attempts THEN "end"
    ELSE "retry"

\* should_retry: "end" or "retry"
should_retry_route(sv, cv, attempts, max_attempts, all_errors) ==
    IF sv /\ cv THEN "end"
    ELSE IF attempts >= max_attempts THEN "end"
    ELSE IF \E i \in 1..Len(all_errors) : \E kw \in non_retryable : Contains(all_errors[i], kw)
    THEN "end"
    ELSE "retry"

\* should_retry resetting the validation fields on every failed validation
should_retry_resets_always(route) == ~(schema_valid /\ citations_valid)

\* should_retry: whether the validation fields are reset before it returns
should_retry_resets(route) == route = "retry"

should_retry ==
    /\ pc = "should_retry"
    /\ LET route == should_retry_route(schema_valid, citations_valid, llm_attempts,
                                       max_llm_attempts, schema_errors \o citation_errors)
       IN /\ IF should_retry_resets(route)
             THEN /\ schema_valid' = FALSE
                  /\ citations_valid' = FALSE
                  /\ schema_errors' = <<>>
                  /\ citation_errors' = <<>>
                  /\ lastWrite' = "should_retry"
             ELSE UNCHANGED <<schema_valid, citations_valid, schema_errors,
                              citation_errors, lastWrite>>
          /\ pc' = IF route = "retry" THEN "summarize" ELSE "END"
    /\ UNCHANGED <<envVars, plan, tool_calls, retrieved_files, output, llm_attempts,
                   max_llm_attempts, last_validation_feedback, route_decision,
                   execVars, modelCalls, summarizeRuns, injected, readArgs, prompts>>

\* node_handle_error marking the validation as failed without a message
node_handle_error_no_messages ==
    /\ pc = "handle_error"
    /\ schema_valid' = FALSE
    /\ schema_errors' = <<>>
    /\ citations_valid' = FALSE
    /\ citation_errors' = <<>>
    /\ lastWrite' = "handle_error"
    /\ pc' = "END"
    /\ UNCHANGED <<envVars, plan, tool_calls, retrieved_files, output, llm_attempts,
                   max_llm_attempts, last_validation_feedback, route_decision,
                   execVars, modelCalls, summarizeRuns, injected, readArgs, prompts>>

node_handle_error ==
    /\ pc = "handle_error"
    /\ schema_valid' = FALSE
    /\ schema_errors' = <<Lit("Agent failed: all tool operations failed")>>
    /\ citations_valid' = FALSE
    /\ citation_errors' = <<Lit("No valid tool results; cannot validate citations")>>
    /\ lastWrite' = "handle_error"
    /\ pc' = "END"
    /\ UNCHANGED <<envVars, plan, tool_calls, retrieved_files, output, llm_attempts,
                   max_llm_attempts, last_validation_feedback, route_decision,
                   execVars, modelCalls, summarizeRuns, injected, readArgs, prompts>>

node_finalize ==
    /\ pc = "finalize"
    /\ ApplyVerify
    /\ lastWrite' = "finalize"
    /\ pc' = "END"
    /\ UNCHANGED <<envVars, plan, tool_calls, retrieved_files, output, llm_attempts,
                   max_llm_attempts, route_decision, execVars, modelCalls,
                   summarizeRuns, injected, readArgs, prompts>>

\* a _pushd whose exit leaves the working directory where the run put it
_pushd_exit_without_restore ==
    /\ pc \in {"END", "raised"}
    /\ pushd_prev # NoneVal
    /\ pushd_prev' = NoneVal
    /\ UNCHANGED <<task, fs, listWorks, list_max_files, content_validation, cwd, cwd_before, pc,
                   agentVars, execVars, histVars>>

\* run_langgraph_agent up to the first node: _pushd saves os.getcwd() and
\* changes to repo_path; os.chdir raises when repo_path is no directory, before
\* the try block of _pushd is entered
_pushd_enter ==
    /\ pc = "call"
    /\ \E is_dir \in BOOLEAN :
        IF is_dir
        THEN /\ pushd_prev' = cwd
             /\ cwd' = RepoDir
             /\ pc' = "plan"
        ELSE /\ pc' = "raised"
             /\ UNCHANGED <<cwd, pushd_prev>>
    /\ UNCHANGED <<task, fs, listWorks, list_max_files, content_validation, cwd_before,
                   agentVars, execVars, histVars>>

\* the finally block of _pushd: app.invoke has returned or raised
_pushd_exit ==
    /\ pc \in {"END", "raised"}
    /\ pushd_prev # NoneVal
    /\ cwd' = pushd_prev
    /\ pushd_prev' = NoneVal
    /\ UNCHANGED <<task, fs, listWorks, list_max_files, content_validation, cwd_before, pc,
                   agentVars, execVars, histVars>>

Next ==
    \/ _pushd_enter
    \/ _pushd_exit
    \/ node_plan
    \/ node_execute
    \/ node_analyze
    \/ route_after_analyze
    \/ node_summarize
    \/ node_verify
    \/ should_retry
    \/ node_handle_error
    \/ node_finalize


Spec == Init /\ [][Next]_vars

\* Every node, tool call and model call returns: a node that was entered runs to
\* its end (execute: its next step is taken) and the edge out of it is followed.
\* For verify the condition is put on the edge verify -> should_retry, which is
\* enabled exactly when node_verify is: node_verify has no guard but pc.
FairSpec ==
    /\ Spec
    /\ WF_vars(_pushd_enter)
    /\ WF_vars(node_plan) /\ WF_vars(node_execute) /\ WF_vars(node_analyze)
    /\ WF_vars(route_after_analyze) /\ WF_vars(node_summarize)
    /\ WF_pc(pc = "verify" /\ pc' = "should_retry")
    /\ WF_vars(should_retry) /\ WF_vars(node_handle_error) /\ WF_vars(node_finalize)

----------------------------------------------------------------------------
(* Properties *)

AfterAnalyze == pc \notin {"call", "plan", "execute", "analyze"}
ValidationPassed == schema_valid /\ citations_valid
SecurityRejected ==
    \E i \in 1..Len(tool_calls) :
        /\ tool_calls[i].tool = "read_file"
        /\ tool_calls[i].result_status = "error"
        /\ tool_calls[i].error \in {ErrSymlink, ErrTraversal}

\* C1: the model is invoked, and node_summarize runs, at most max_llm_attempts
\* (2) times in a run.
RetryBound ==
    /\ max_llm_attempts = 2
    /\ modelCalls <= max_llm_attempts
    /\ summarizeRuns <= max_llm_attempts
    /\ llm_attempts <= max_llm_attempts
\* a run that used its whole budget
RetryBoundWitness == pc = "END" /\ summarizeRuns = 2 /\ modelCalls = 2

\* C2: if every call returns, the run reaches END (a run stops otherwise only
\* by raising), and the verify pass with llm_attempts at max_llm_attempts
\* routes to END, valid or not.
Termination ==
    /\ <>(pc = "END" \/ pc = "raised")
    /\ [][(pc = "should_retry" /\ llm_attempts >= max_llm_attempts) => pc' = "END"]_vars
\* a run ended by the exhausted budget with an invalid output
TerminationWitness ==
    pc = "END" /\ llm_attempts = max_llm_attempts /\ ~ValidationPassed
    /\ route_decision = "call_llm"

\* some schema or citation error holds a non-retryable keyword
HasNonRetryableError ==
    \E i \in 1..Len(schema_errors \o citation_errors) :
        \E kw \in {"binary", "symlink", "path traversal", "outside repository"} :
            Contains((schema_errors \o citation_errors)[i], kw)

\* C3: after a verify pass the run ends iff the output is valid, or the budget
\* is used up, or an error holds a non-retryable keyword; otherwise the four
\* validation fields are cleared and summarize runs again, adding one to
\* llm_attempts.
VerifyRouting ==
    [][/\ pc = "should_retry" =>
            /\ (pc' = "END") <=>
                   (ValidationPassed \/ llm_attempts >= max_llm_attempts
                    \/ HasNonRetryableError)
            /\ pc' # "END" =>
                   /\ pc' = "summarize"
                   /\ schema_valid' = FALSE /\ citations_valid' = FALSE
                   /\ schema_errors' = <<>> /\ citation_errors' = <<>>
            /\ llm_attempts' = llm_attempts
       /\ pc = "summarize" => llm_attempts' = llm_attempts + 1
      ]_vars
\* a run ended by a non-retryable keyword alone, with budget left
VerifyRoutingWitness ==
    /\ pc = "END" /\ route_decision = "call_llm"
    /\ ~ValidationPassed /\ llm_attempts < max_llm_attempts /\ HasNonRetryableError

\* C4: once a read_file attempt was rejected with a security error, no verify
\* pass is followed by a retry.
NoRetryAfterSecurityRejection ==
    [][(pc = "should_retry" /\ SecurityRejected) => pc' # "summarize"]_vars

\* C5: on the routes "error" and "skip_llm" the run goes through handle_error
\* or finalize to END; summarize never runs and the model is never called.
PreModelInterception ==
    (AfterAnalyze /\ pc # "route_after_analyze" /\ pc # "raised"
       /\ route_decision \in {"error", "skip_llm"}) =>
        /\ pc \in {"handle_error", "finalize", "END"}
        /\ route_decision = "error" => pc \in {"handle_error", "END"}
        /\ route_decision = "skip_llm" => pc \in {"finalize", "END"}
        /\ llm_attempts = 0 /\ summarizeRuns = 0 /\ modelCalls = 0
        /\ pc = "END" =>
              lastWrite = (IF route_decision = "error" THEN "handle_error" ELSE "finalize")
PreModelInterceptionWitness ==
    pc = "END" /\ route_decision = "skip_llm" /\ llm_attempts = 0

\* C6: at END the output is populated and the four validation fields are those
\* of a verification of that output (or the ones handle_error assigns); the
\* reset of should_retry is never the last write.
TerminalComplete ==
    pc = "END" =>
        /\ DOMAIN output # {}
        /\ lastWrite \in {"verify", "finalize", "handle_error"}
        /\ IF route_decision = "error"
           THEN /\ ~schema_valid /\ ~citations_valid
                /\ Len(schema_errors) = 1 /\ Len(citation_errors) = 1
           ELSE LET v == verify_output(task, output, retrieved_files, tool_calls)
                IN /\ schema_valid = v.schema_valid
                   /\ schema_errors = v.schema_errors
                   /\ citations_valid = v.citations_valid
                   /\ citation_errors = v.citation_errors
\* a run that ended after a failed validation with budget left
TerminalCompleteWitness ==
    /\ pc = "END" /\ lastWrite = "verify" /\ ~citations_valid
    /\ citation_errors # <<>> /\ llm_attempts = 1

\* the conditions of the Analyzer's rules, read off the logs of the run
AllToolCallsFailed ==
    \A i \in 1..Len(tool_calls) : tool_calls[i].result_status = "error"
TaskOutOfBounds == task = TaskEtc
Listing ==
    IF \E i \in 1..Len(retrieved_files) : retrieved_files[i].tool = "list_files"
    THEN SelectSeq(retrieved_files, LAMBDA x : x.tool = "list_files")[1].files
    ELSE <<>>
NoFilesListed == Listing = <<>>
TaskNamesBinaryRead ==
    \E i \in 1..Len(retrieved_files) :
        /\ retrieved_files[i].tool = "read_file" /\ retrieved_files[i].is_binary
        /\ task = TaskDb /\ retrieved_files[i].path = "data.db"
NoReadHasContent ==
    \A i \in 1..Len(retrieved_files) :
        retrieved_files[i].tool = "read_file" =>
            \/ retrieved_files[i].is_binary
            \/ retrieved_files[i].error # NoneVal
            \/ retrieved_files[i].lines = <<>>
ConfidenceIs(c) ==
    "confidence" \in DOMAIN output /\ output["confidence"] = JStr(c)
SummaryIs(text) == "summary" \in DOMAIN output /\ output["summary"] = JStr(text)

\* C7: analyze_evidence takes the route of the first rule that matches, in the
\* order all-tools-failed, traversal task, no files listed, binary target, no
\* readable content, otherwise call_llm; the task "describe contents of
\* /etc/passwd" gets the rejection summary with confidence high on skip_llm
\* (rule 2, when rule 1 does not match).
AnalyzerPriority ==
    pc = "route_after_analyze" =>
        /\ IF AllToolCallsFailed
           THEN route_decision = "error" /\ SummaryIs(SummaryAllToolsFailed)
           ELSE IF TaskOutOfBounds
           THEN /\ route_decision = "skip_llm" /\ ConfidenceIs("high")
                /\ SummaryIs(SummaryTraversal)
           ELSE IF NoFilesListed
           THEN /\ route_decision = "skip_llm" /\ ConfidenceIs("high")
                /\ SummaryIs(SummaryEmptyRepo)
           ELSE IF TaskNamesBinaryRead
           THEN /\ route_decision = "skip_llm" /\ ConfidenceIs("high")
                /\ SummaryIs(SummaryBinary("data.db"))
           ELSE IF NoReadHasContent
           THEN /\ route_decision = "skip_llm" /\ ConfidenceIs("low")
                /\ output["summary"].s.tpl = "Cannot analyze: all file reads failed ({})."
           ELSE route_decision = "call_llm" /\ DOMAIN output = {"_context_notes"}
\* the /etc/passwd task on a repository with files: its plan has no read step,
\* so no read has content and rules 2 and 5 both match; rule 2 wins
AnalyzerPriorityWitness ==
    /\ pc = "route_after_analyze" /\ task = TaskEtc /\ ~AllToolCallsFailed
    /\ ~NoFilesListed /\ NoReadHasContent
    /\ route_decision = "skip_llm" /\ SummaryIs(SummaryTraversal)

EmptyRepoOutput ==
    [summary |-> JStr(Lit("Repository is empty, no files to analyze.")),
     high_risk_areas |-> JList(<<>>), confidence |-> JStr("high")]

\* C8 as stated: whenever the file listing is empty, the route is skip_llm and
\* the output is the empty-repository answer.
EmptyListingAlwaysEmptyAnswer ==
    (pc = "route_after_analyze" /\ NoFilesListed) =>
        (route_decision = "skip_llm" /\ output = EmptyRepoOutput)

\* C8 amended: whenever the file listing is empty, some tool call succeeded and
\* the task matches no path-traversal pattern, the route is skip_llm and the
\* output is the empty-repository answer.
EmptyListingAnswer ==
    (pc = "route_after_analyze" /\ NoFilesListed /\ ~AllToolCallsFailed
       /\ ~TaskOutOfBounds) =>
        (route_decision = "skip_llm" /\ output = EmptyRepoOutput)
\* list_files returned no file, for a task that names a file
EmptyListingAnswerWitness ==
    /\ pc = "route_after_analyze" /\ NoFilesListed /\ task = TaskDb
    /\ Len(tool_calls) = 1 /\ tool_calls[1].result_status = "success"
    /\ output = EmptyRepoOutput

\* C9 as stated: the placeholder of an unparsable response fails validation in
\* the following verify pass and is retried while budget remains.
PlaceholderFailsValidation ==
    [][(pc = "should_retry" /\ output = ParseFailureOutput) =>
          /\ ~ValidationPassed
          /\ llm_attempts < max_llm_attempts => pc' = "summarize"]_vars

\* C9 amended: the placeholder of an unparsable response passes schema
\* validation and, its citation list being empty, citation validation; the
\* following verify pass routes to END without a retry (its citations are
\* invalid only by a security override, which is not retried either).
PlaceholderEndsRun ==
    [][(pc = "should_retry" /\ output = ParseFailureOutput) =>
          /\ schema_valid /\ schema_errors = <<>>
          /\ validate_citations(output, retrieved_files, FALSE) = <<TRUE, <<>> >>
          /\ citations_valid \/ SecurityRejected
          /\ pc' = "END"]_vars
\* a first response that could not be parsed ended the run as valid
PlaceholderEndsRunWitness ==
    /\ pc = "END" /\ output = ParseFailureOutput /\ llm_attempts = 1
    /\ ValidationPassed /\ modelCalls = 1

CitationShape(c) ==
    /\ IsDict(c) /\ DOMAIN c.d = {"file_path", "line_start", "line_end", "description"}
    /\ IsStr(c.d["file_path"]) /\ IsStr(c.d["description"])
    /\ IsInt(c.d["line_start"]) /\ IsInt(c.d["line_end"])
OutputShape(out) ==
    /\ DOMAIN out = {"summary", "high_risk_areas", "confidence"}
    /\ IsStr(out["summary"])
    /\ out["confidence"] \in {JStr("low"), JStr("medium"), JStr("high")}
    /\ IsList(out["high_risk_areas"])
    /\ \A i \in 1..Len(out["high_risk_areas"].l) : CitationShape(out["high_risk_areas"].l[i])

\* C10: generate_structured_summary never raises, and every value it returns
\* has the canonical shape.
SummarizerNeverRaises ==
    /\ pc # "raised"
    /\ lastWrite \in {"summarize", "verify", "should_retry"} => OutputShape(output)

\* a run the Analyzer ended before the model: routes "error" and "skip_llm"
TotalFailure == pc = "END" /\ route_decision \in {"error", "skip_llm"}

HasSecurityDiagnostic ==
    \E i \in 1..Len(citation_errors) :
        citation_errors[i].tpl = "Security error for '{}': {}"

\* C13: after a verify pass schema_valid is the schema check's verdict,
\* citations_valid is never True where the citation check said False, and
\* whenever a read_file record carries a security error citations_valid is
\* False and citation_errors holds a security diagnostic.
SecurityOverrideRules ==
    lastWrite \in {"verify", "finalize"} =>
        /\ schema_valid = validate_output_schema(output)[1]
        /\ citations_valid => validate_citations(output, retrieved_files, FALSE)[1]
        /\ SecurityRejected => (~citations_valid /\ HasSecurityDiagnostic)

IsPrefix(s, t) == Len(s) <= Len(t) /\ SubSeq(t, 1, Len(s)) = s

\* C14: tool_calls and retrieved_files only grow by appending; each summarize
\* replaces output by the Summarizer's return value and each verify replaces the
\* four validation fields by the result of that pass.
AppendOnlyLogs ==
    [][/\ IsPrefix(tool_calls, tool_calls')
       /\ IsPrefix(retrieved_files, retrieved_files')
       /\ (pc = "summarize" /\ pc' = "verify") =>
              /\ DOMAIN output' = {"summary", "high_risk_areas", "confidence"}
              /\ \/ output' = NoEvidenceOutput
                 \/ output' = ParseFailureOutput
                 \/ \E r \in Responses : output' = _clean_to_schema(r.body)
       /\ pc = "verify" =>
              LET v == verify_output(task, output, retrieved_files, tool_calls)
              IN /\ schema_valid' = v.schema_valid
                 /\ schema_errors' = v.schema_errors
                 /\ citations_valid' = v.citations_valid
                 /\ citation_errors' = v.citation_errors
      ]_vars
\* a second summarize/verify cycle ran over logs that hold several records
AppendOnlyLogsWitness ==
    /\ summarizeRuns = 2 /\ lastWrite = "verify"
    /\ Len(tool_calls) >= 3 /\ Len(retrieved_files) >= 3

\* the read_file records of tool_calls
ReadCalls == SelectSeq(tool_calls, LAMBDA c : c.tool = "read_file")
FailedReadCalls == SelectSeq(ReadCalls, LAMBDA c : c.result_status = "error")
ReadCallsOf(f) == SelectSeq(ReadCalls, LAMBDA c : c.path = f)

\* C20: no file gets more than 3 read attempts, the run records at most 6
\* failed read attempts, and once 6 are recorded no read_file call is made and
\* the records already appended stay as they are.
ReadRetryBudgets ==
    [][/\ \A f \in FileSet : Len(ReadCallsOf(f)') <= 3
       /\ \A i \in 1..Len(ReadCalls') : ReadCalls'[i].attempt \in 1..3
       /\ Len(FailedReadCalls') <= 6
       /\ Len(FailedReadCalls) >= 6 =>
              /\ tool_calls' = tool_calls
              /\ IsPrefix(retrieved_files, retrieved_files')
              /\ \A i \in Len(retrieved_files) + 1 .. Len(retrieved_files') :
                     retrieved_files'[i].error = ErrAllFailed
      ]_vars
\* the sixth failure ended the reads while a listed file was still unread
ReadRetryBudgetsWitness ==
    /\ pc = "analyze" /\ Len(FailedReadCalls) = 6
    /\ \E f \in FileSet : fs[f] # "absent" /\ Len(ReadCallsOf(f)) = 0

----------------------------------------------------------------------------
(* The validators and the Verifier called on their own, as eval/evaluator.py
   and the tests call them: on an output and the logs of a finished execution *)

\* citations per output in the inputs of the validators
MaxCitations == 2

ListResult(files) == [raised |-> FALSE, files |-> files, error |-> NoneVal]

\* the logs execute_plan leaves after listing `files` and reading, in order, the
\* files with the results in reads (one successful attempt each)
RECURSIVE ReadCallsLog(_)
ReadCallsLog(reads) ==
    IF reads = <<>> THEN <<>>
    ELSE <<ReadToolCall(Head(reads).path, Head(reads), 1)>> \o ReadCallsLog(Tail(reads))
RECURSIVE ReadEvidenceLog(_)
ReadEvidenceLog(reads) ==
    IF reads = <<>> THEN <<>>
    ELSE <<ReadEvidence(Head(reads))>> \o ReadEvidenceLog(Tail(reads))

\* the three failed attempts of _read_with_retries on a symlink
SymlinkCalls(rel_path) ==
    [a \in 1..MAX_FILE_RETRIES |-> ReadToolCall(rel_path, ReadRaise(ErrSymlink), a)]

AllRegular == [f \in FileSet |-> "regular"]
OnlyA == [f \in FileSet |-> IF f = "a.py" THEN "regular" ELSE "absent"]
SymlinkMain ==
    [f \in FileSet |-> CASE f = "main.py" -> "symlink" [] f = "a.py" -> "regular"
                         [] OTHER -> "absent"]

\* Finished executions: the task, the repository, and the two logs.
ExecutionLogs == {
    \* every file read in ranked order, the last one binary
    [task |-> TaskGeneral, fs |-> AllRegular,
     tool_calls |-> <<ListToolCall(ListResult(Files))>>
         \o ReadCallsLog(<<read_text("main.py", FileLines, FullReadMaxLines, 0, 0),
                           read_text("a.py", FileLines, FullReadMaxLines, 0, 0),
                           read_binary("data.db")>>),
     retrieved_files |-> <<ListEvidence(ListResult(Files))>>
         \o ReadEvidenceLog(<<read_text("main.py", FileLines, FullReadMaxLines, 0, 0),
                              read_text("a.py", FileLines, FullReadMaxLines, 0, 0),
                              read_binary("data.db")>>)],
    \* the task names the binary file, which is read first
    [task |-> TaskDb, fs |-> AllRegular,
     tool_calls |-> <<ListToolCall(ListResult(Files))>>
         \o ReadCallsLog(<<read_binary("data.db"),
                           read_text("main.py", FileLines, FullReadMaxLines, 0, 0),
                           read_text("a.py", FileLines, FullReadMaxLines, 0, 0)>>),
     retrieved_files |-> <<ListEvidence(ListResult(Files))>>
         \o ReadEvidenceLog(<<read_binary("data.db"),
                              read_text("main.py", FileLines, FullReadMaxLines, 0, 0),
                              read_text("a.py", FileLines, FullReadMaxLines, 0, 0)>>)],
    \* main.py is a symlink, a.py is read
    [task |-> TaskGeneral, fs |-> SymlinkMain,
     tool_calls |-> <<ListToolCall(ListResult(<<"a.py", "main.py">>))>>
         \o SymlinkCalls("main.py")
         \o ReadCallsLog(<<read_text("a.py", FileLines, FullReadMaxLines, 0, 0)>>),
     retrieved_files |-> <<ListEvidence(ListResult(<<"a.py", "main.py">>)),
                           AllFailedEvidence("main.py")>>
         \o ReadEvidenceLog(<<read_text("a.py", FileLines, FullReadMaxLines, 0, 0)>>)],
    \* a traversal task: the plan has no read step
    [task |-> TaskEtc, fs |-> AllRegular,
     tool_calls |-> <<ListToolCall(ListResult(Files))>>,
     retrieved_files |-> <<ListEvidence(ListResult(Files))>>],
    \* a.py has 50 lines and is read in full
    [task |-> TaskPy, fs |-> OnlyA,
     tool_calls |-> <<ListToolCall(ListResult(<<"a.py">>))>>
         \o ReadCallsLog(<<read_text("a.py", 50, FullReadMaxLines, 0, 0)>>),
     retrieved_files |-> <<ListEvidence(ListResult(<<"a.py">>))>>
         \o ReadEvidenceLog(<<read_text("a.py", 50, FullReadMaxLines, 0, 0)>>)],
    \* a.py has 400 lines, the task names line 300: lines 295-305 are read
    [task |-> TaskLine, fs |-> OnlyA,
     tool_calls |-> <<ListToolCall(ListResult(<<"a.py">>))>>
         \o ReadCallsLog(<<read_text("a.py", 400, ChunkFallbackEnd,
                                     TaskChunk(TaskLine)[1], TaskChunk(TaskLine)[2])>>),
     retrieved_files |-> <<ListEvidence(ListResult(<<"a.py">>))>>
         \o ReadEvidenceLog(<<read_text("a.py", 400, ChunkFallbackEnd,
                                        TaskChunk(TaskLine)[1], TaskChunk(TaskLine)[2])>>)]
}

\* Entries of high_risk_areas
CiteAgain == Citation(JStr("a.py"), JInt(1), JInt(FileLines), JStr("same lines"))
CiteFirst == Citation(JStr("main.py"), JInt(1), JInt(1), JStr("first line"))
CiteZero == Citation(JStr("a.py"), JInt(0), JInt(1), JStr("from zero"))
CiteNested == Citation(JStr("a.py"), JInt(1), JInt(1), JList(<<JStr("nested")>>))
CiteMissing == JDict([file_path |-> JStr("a.py"), line_start |-> JInt(1), line_end |-> JInt(1)])
CiteScenario == Citation(JStr("a.py"), JInt(40), JInt(60), JStr("scenario"))
CiteChunk == Citation(JStr("a.py"), JInt(294), JInt(296), JStr("chunk"))
CiteInChunk == Citation(JStr("a.py"), JInt(295), JInt(296), JStr("in chunk"))
CiteTrue == Citation(JStr("main.py"), JBool(TRUE), JInt(1), JStr("bool bound"))

CitationPool == {CiteA, CiteAgain, CiteFirst, CiteBeyond, CiteReversed, CiteZero,
                 CiteBadType, CiteMissing, CiteScenario, CiteChunk, CiteInChunk}

\* citation lists with an entry between two citations of the same lines
SpacedLists == {<<CiteA, CiteGhost, CiteAgain>>, <<CiteFirst, JStr("x"), CiteTrue>>,
                <<CiteZero, CiteA, CiteZero>>}
\* citation lists with entries that are no citation objects, that name files
\* never read, or whose fields are of unexpected types
MalformedLists == {<<JStr("x")>>, <<CiteGhost>>, <<CiteMain, CiteA>>, <<CiteTrue>>,
                   <<CiteExtra, CiteBadType>>, <<CiteBadType, CiteNested>>,
                   <<CiteNested, JStr("x")>>}

\* citation lists around the citation of the scenario (a.py, lines 30-25)
CiteThirty == Citation(JStr("a.py"), JInt(30), JInt(25), JStr("thirty"))
ReversedLists == {<<CiteThirty>>, <<CiteThirty, CiteThirty>>, <<CiteGhost, CiteThirty>>}

CitationLists ==
    UNION {[1..n -> CitationPool] : n \in 0..MaxCitations} \cup SpacedLists \cup MalformedLists
        \cup ReversedLists

\* Outputs: every citation list in a well-formed report, and reports whose
\* top-level fields break the schema
Outputs ==
    {[summary |-> ModelSummary, high_risk_areas |-> JList(l), confidence |-> JStr("medium")] :
        l \in CitationLists}
    \cup {
        [summary |-> JInt(7), high_risk_areas |-> JList(<<>>), confidence |-> JStr("low")],
        [summary |-> ModelSummary, high_risk_areas |-> JList(<<CiteA>>),
         confidence |-> JStr("certain")],
        [summary |-> JInt(7), high_risk_areas |-> JList(<<CiteBadType>>),
         confidence |-> JStr("certain")],
        [summary |-> ModelSummary, high_risk_areas |-> JList(<<CiteA>>),
         confidence |-> JNull],
        [summary |-> ModelSummary, high_risk_areas |-> JList(<<CiteA>>),
         confidence |-> JStr("high"), notes |-> JNull],
        [summary |-> ModelSummary, high_risk_areas |-> JList(<<CiteA>>)],
        [summary |-> ModelSummary, high_risk_areas |-> JList(<<CiteA>>), notes |-> JNull],
        [summary |-> ModelSummary, high_risk_areas |-> JStr("none"),
         confidence |-> JStr("low")],
        [summary |-> ModelSummary, high_risk_areas |-> JNull, confidence |-> JStr("low")],
        [summary |-> JNull, high_risk_areas |-> JNull, confidence |-> JStr("low")],
        EmptyDict
    }

\* the state after a finished execution and one model call
VInit ==
    /\ \E e \in ExecutionLogs :
        /\ task = e.task
        /\ fs = e.fs
        /\ tool_calls = e.tool_calls
        /\ retrieved_files = e.retrieved_files
    /\ listWorks = TRUE
    /\ list_max_files = MaxFilesDefault
    /\ content_validation = RangeOnly
    /\ cwd = RepoDir
    /\ cwd_before = "/work"
    /\ pushd_prev = cwd_before
    /\ plan = plan_task(task)
    /\ output \in Outputs
    /\ schema_valid = FALSE
    /\ citations_valid = FALSE
    /\ schema_errors = <<>>
    /\ citation_errors = <<>>
    /\ llm_attempts = 1
    /\ max_llm_attempts = DefaultMaxLlmAttempts
    /\ last_validation_feedback = NoFeedback
    /\ route_decision = "call_llm"
    /\ stepIdx = Len(plan) + 1
    /\ listed_files = SelectFiles(Files, 1)
    /\ list_files_succeeded = TRUE
    /\ global_failures = Len(FailedReadCalls)
    /\ to_read = <<>>
    /\ readIdx = 0
    /\ attempt = 0
    /\ use_chunk_fallback = FALSE
    /\ pc = "inputs"
    /\ modelCalls = 1
    /\ summarizeRuns = 1
    /\ injected = 0
    /\ readArgs = <<>>
    /\ prompts = <<>>
    /\ lastWrite = "summarize"

ValidatorUnchanged ==
    UNCHANGED <<envVars, plan, tool_calls, retrieved_files, output, llm_attempts,
                max_llm_attempts, route_decision, execVars, modelCalls, summarizeRuns,
                injected, readArgs, prompts>>

\* schema_ok, schema_errs = validate_output_schema(output)
call_validate_output_schema ==
    /\ pc = "inputs"
    /\ LET r == validate_output_schema(output)
       IN /\ schema_valid' = r[1]
          /\ schema_errors' = r[2]
    /\ pc' = "schema_validated"
    /\ lastWrite' = "validate_output_schema"
    /\ UNCHANGED <<citations_valid, citation_errors, last_validation_feedback>>
    /\ ValidatorUnchanged

\* citations_ok, citation_errs = validate_citations(output, retrieved_files, rules=...),
\* without rules (as the Verifier calls it) or with the rules that reject
\* negative and zero line numbers (as the evaluator's test cases may)
call_validate_citations ==
    /\ pc = "inputs"
    /\ \E reject_nonpositive \in BOOLEAN :
        /\ LET r == validate_citations(output, retrieved_files, reject_nonpositive)
           IN /\ citations_valid' = r[1]
              /\ citation_errors' = r[2]
        /\ pc' = IF reject_nonpositive THEN "citations_validated_rules"
                 ELSE "citations_validated"
    /\ lastWrite' = "validate_citations"
    /\ UNCHANGED <<schema_valid, schema_errors, last_validation_feedback>>
    /\ ValidatorUnchanged

\* verify_output(state), and verify_output(state) again on the state it returned
call_verify_output ==
    /\ pc \in {"inputs", "verified"}
    /\ ApplyVerify
    /\ pc' = IF pc = "inputs" THEN "verified" ELSE "reverified"
    /\ lastWrite' = "verify"
    /\ ValidatorUnchanged

\* the assertions of the evaluator's test cases: line 1 of a.py holds the text
\* in another case, line 2 does not hold it
AssertLogin == [file |-> "a.py", line |-> 1, must_not_contain_text |-> "LOGIN"]
AssertCode == [file |-> "a.py", line |-> 2, must_not_contain_text |-> "login"]
\* the reports of the test cases with assertions: citations of lines that were
\* read, of lines past the end of the file, and an entry without description
ContentPool == {CiteA, CiteAgain, CiteFirst, CiteBeyond, CiteMissing}
ContentOutputs ==
    {[summary |-> ModelSummary, high_risk_areas |-> JList(l), confidence |-> JStr("medium")] :
        l \in UNION {[1..n -> ContentPool] : n \in 0..MaxCitations}}
ContentValidations ==
    {[mode |-> "content_aware", assertions |-> <<AssertLogin>>],
     [mode |-> "content_aware", assertions |-> <<AssertCode>>]}

\* citations_ok, citation_errs = validate_citations(output, retrieved_files,
\* mode="content_aware", rules=..., content_validation=...), as the evaluator
\* calls it for a test case with assertions
call_validate_citations_content_aware ==
    /\ pc = "inputs"
    /\ output \in ContentOutputs
    /\ \E cv \in ContentValidations : \E reject_nonpositive \in BOOLEAN :
        /\ content_validation' = cv
        /\ \E errs \in {citation_errors_mode(output, retrieved_files,
                                              reject_nonpositive, cv)} :
            /\ citations_valid' = (errs = <<>>)
            /\ citation_errors' = errs
        /\ pc' = IF reject_nonpositive THEN "content_validated_rules"
                 ELSE "content_validated"
    /\ lastWrite' = "validate_citations"
    /\ UNCHANGED <<task, fs, listWorks, list_max_files, cwd, pushd_prev, cwd_before>>
    /\ UNCHANGED <<schema_valid, schema_errors, last_validation_feedback>>
    /\ UNCHANGED <<plan, tool_calls, retrieved_files, output, llm_attempts,
                   max_llm_attempts, route_decision, execVars, modelCalls, summarizeRuns,
                   injected, readArgs, prompts>>

VNext ==
    \/ call_validate_output_schema
    \/ call_validate_citations
    \/ call_verify_output
    \/ call_validate_citations_content_aware

ValidatorSpec == VInit /\ [][VNext]_vars

WellTyped(c) ==
    /\ IsDict(c)
    /\ IsStr(Get(c.d, "file_path"))
    /\ IsInt(Get(c.d, "line_start"))
    /\ IsInt(Get(c.d, "line_end"))
\* the file is in the evidence, line_start <= line_end, both positive, and
\* every line of the range is among the file's retrieved line numbers
Grounded(c, rf) ==
    /\ WellTyped(c)
    /\ c.d["file_path"].s \in EvidencePaths(rf)
    /\ LineOf(c.d["line_start"]) <= LineOf(c.d["line_end"])
    /\ LineOf(c.d["line_start"]) > 0 /\ LineOf(c.d["line_end"]) > 0
    /\ \A x \in LineOf(c.d["line_start"]) .. LineOf(c.d["line_end"]) :
           x \in evidence_lines(rf, c.d["file_path"].s)
CitationKey(c) == <<c.d["file_path"].s, LineOf(c.d["line_start"]), LineOf(c.d["line_end"])>>
\* two well-typed citations of the list have the same (file_path, line_start, line_end)
HasRepeatedKey(l) ==
    \E i, j \in 1..Len(l) :
        i < j /\ WellTyped(l[i]) /\ WellTyped(l[j]) /\ CitationKey(l[i]) = CitationKey(l[j])
\* output.get("high_risk_areas"), None when absent
CitedAreas == Get(output, "high_risk_areas")
AllGrounded == \A i \in 1..Len(Elements(CitedAreas)) : Grounded(Elements(CitedAreas)[i], retrieved_files)

\* C15 as stated: citation validation without rules passes iff every citation
\* is grounded (file in evidence, line_start <= line_end, both positive, every
\* line of the range retrieved); an empty list passes.
CitationGrounding ==
    pc = "citations_validated" => (citations_valid <=> AllGrounded)

\* C15: citation validation without rules passes iff every citation is
\* grounded and no two citations have the same (file_path, line_start,
\* line_end); an absent, None or empty high_risk_areas passes.  After
\* verify_output, citations_valid implies the same condition.
CitationGroundingDistinct ==
    /\ pc = "citations_validated" =>
          (citations_valid <=> AllGrounded /\ ~HasRepeatedKey(Elements(CitedAreas)))
    /\ pc = "citations_validated" /\ ~Truthy(CitedAreas) => citations_valid
    /\ pc \in {"verified", "reverified"} /\ citations_valid =>
          AllGrounded /\ ~HasRepeatedKey(Elements(CitedAreas))
\* two different grounded citations pass, on evidence that does not start at line 1
\* or on evidence of several files
CitationGroundingWitness ==
    /\ pc = "citations_validated"
    /\ citations_valid
    /\ IsList(CitedAreas) /\ Len(CitedAreas.l) = 2
    /\ CitedAreas.l[1].d["file_path"] # CitedAreas.l[2].d["file_path"]

\* the (file_path, line_start, line_end) of two entries are identical
SameTriple(c1, c2) ==
    /\ IsDict(c1) /\ IsDict(c2)
    /\ \/ /\ Get(c1.d, "file_path") = Get(c2.d, "file_path")
          /\ Get(c1.d, "line_start") = Get(c2.d, "line_start")
          /\ Get(c1.d, "line_end") = Get(c2.d, "line_end")
       \/ WellTyped(c1) /\ WellTyped(c2) /\ CitationKey(c1) = CitationKey(c2)
HasSameTriple(l) == \E i, j \in 1..Len(l) : i < j /\ SameTriple(l[i], l[j])
HasDuplicateDiagnostic ==
    \E i \in 1..Len(citation_errors) :
        citation_errors[i].tpl = "Duplicate citation: {} lines {}-{}"

\* C16: when high_risk_areas holds two citations with identical (file_path,
\* line_start, line_end), at any positions and whatever their descriptions,
\* citation validation fails (with or without validation rules, and in the
\* Verifier); without rules a repeated well-typed citation is reported as a duplicate.
DuplicateRejection ==
    /\ pc \in {"citations_validated", "citations_validated_rules", "verified", "reverified"}
       /\ IsList(CitedAreas) /\ HasSameTriple(CitedAreas.l)
          => ~citations_valid /\ citation_errors # <<>>
    /\ pc = "citations_validated" /\ IsList(CitedAreas) /\ HasRepeatedKey(CitedAreas.l)
          => HasDuplicateDiagnostic
\* the same grounded lines cited twice under different descriptions, with
\* another entry in between
DuplicateRejectionWitness ==
    /\ pc = "citations_validated_rules"
    /\ IsList(CitedAreas) /\ Len(CitedAreas.l) = 3
    /\ Grounded(CitedAreas.l[1], retrieved_files)
    /\ SameTriple(CitedAreas.l[1], CitedAreas.l[3])
    /\ CitedAreas.l[1].d["description"] # CitedAreas.l[3].d["description"]
    /\ ~citations_valid /\ HasDuplicateDiagnostic

\* a citation with exactly the four fields, file_path and description strings,
\* line_start and line_end integers (a bool is an int)
ExactCitation(c) ==
    /\ IsDict(c)
    /\ DOMAIN c.d = {"file_path", "line_start", "line_end", "description"}
    /\ IsStr(c.d["file_path"]) /\ IsStr(c.d["description"])
    /\ IsInt(c.d["line_start"]) /\ IsInt(c.d["line_end"])
AllExactCitations == \A i \in 1..Len(Elements(CitedAreas)) : ExactCitation(Elements(CitedAreas)[i])
ExactKeySet == DOMAIN output = {"summary", "high_risk_areas", "confidence"}
ConfidenceInEnum ==
    Get(output, "confidence") \in {JStr("low"), JStr("medium"), JStr("high")}

\* C17 as stated: validate_output_schema passes iff the key set is exactly
\* {summary, high_risk_areas, confidence}, confidence is low, medium or high,
\* and every citation has exactly the four primitive-typed fields.
SchemaExactness ==
    pc = "schema_validated" =>
        (schema_valid <=> ExactKeySet /\ ConfidenceInEnum /\ AllExactCitations)

\* C17: validate_output_schema passes iff the key set is exactly {summary,
\* high_risk_areas, confidence}, summary is a string, confidence is low,
\* medium or high, high_risk_areas is a list, and every citation has exactly
\* the four primitive-typed fields; verify_output records the same verdict.
SchemaExactnessTyped ==
    pc \in {"schema_validated", "verified", "reverified"} =>
        (schema_valid <=> /\ ExactKeySet
                          /\ IsStr(output["summary"])
                          /\ ConfidenceInEnum
                          /\ IsList(output["high_risk_areas"])
                          /\ AllExactCitations)
\* a report with exact keys and a valid confidence is rejected for its summary alone
SchemaExactnessWitness ==
    /\ pc = "schema_validated"
    /\ ExactKeySet /\ ConfidenceInEnum /\ AllExactCitations
    /\ ~IsStr(output["summary"]) /\ IsList(output["high_risk_areas"])
    /\ ~schema_valid
\* a report whose citation has a bool line bound passes
SchemaExactnessAccepts ==
    /\ pc = "schema_validated" /\ schema_valid
    /\ Len(output["high_risk_areas"].l) = 1
    /\ output["high_risk_areas"].l[1].d["line_start"].t = "bool"

\* the schema errors with template tpl / about the citation at 0-based index i
HasSchemaError(tpl) == \E k \in 1..Len(schema_errors) : schema_errors[k].tpl = tpl
ErrorsAbout(i) == SelectSeq(schema_errors, LAMBDA e : e.n = <<i>>)
\* the fields of a citation with the exact key set whose type is wrong
WrongTyped(c) ==
    {key \in {"file_path", "description"} : ~IsStr(c.d[key])}
    \cup {key \in {"line_start", "line_end"} : ~IsInt(c.d[key])}
NestedFields(c) == {key \in DOMAIN c.d : IsList(c.d[key]) \/ IsDict(c.d[key])}
FourKeys == {"file_path", "line_start", "line_end", "description"}

\* every violated rule of one citation has its entry
CitationViolationsListed(c, i) ==
    /\ ~IsDict(c) =>
          \E k \in 1..Len(schema_errors) :
              schema_errors[k] = Fmt("high_risk_areas[{}] must be dict, got {}",
                                     <<TypeName(c)>>, <<i>>)
    /\ IsDict(c) /\ DOMAIN c.d \ FourKeys # {} =>
          \E k \in 1..Len(schema_errors) :
              schema_errors[k] = FmtK("high_risk_areas[{}] has extra fields: {}", <<>>, <<i>>,
                                      DOMAIN c.d \ FourKeys)
    /\ IsDict(c) /\ FourKeys \ DOMAIN c.d # {} =>
          \E k \in 1..Len(schema_errors) :
              schema_errors[k] = FmtK("high_risk_areas[{}] missing fields: {}", <<>>, <<i>>,
                                      FourKeys \ DOMAIN c.d)
    /\ IsDict(c) /\ DOMAIN c.d = FourKeys =>
          /\ \A key \in WrongTyped(c) :
                \E k \in 1..Len(schema_errors) :
                    /\ schema_errors[k].tpl = "high_risk_areas[{}].{} must be {}, got {}"
                    /\ schema_errors[k].n = <<i>> /\ schema_errors[k].s[1] = key
          /\ Len(ErrorsAbout(i)) = Cardinality(WrongTyped(c)) + Cardinality(NestedFields(c))

\* C18 as stated: the error list of validate_output_schema holds an entry for
\* each rule the output violates: top-level key set, summary type, confidence
\* value, high_risk_areas type, and per citation its key set and field types.
AllViolationsCollected ==
    pc = "schema_validated" =>
        /\ ~ExactKeySet =>
              \/ HasSchemaError("Extra fields not allowed: {}")
              \/ HasSchemaError("Missing required fields: {}")
        /\ "summary" \in DOMAIN output /\ ~IsStr(output["summary"]) =>
              HasSchemaError("summary must be str, got {}")
        /\ "confidence" \in DOMAIN output /\ ~ConfidenceInEnum =>
              HasSchemaError("confidence must be 'low', 'medium', or 'high', got {}")
        /\ "high_risk_areas" \in DOMAIN output /\ ~IsList(output["high_risk_areas"]) =>
              HasSchemaError("high_risk_areas must be list, got {}")
        /\ "high_risk_areas" \in DOMAIN output /\ IsList(output["high_risk_areas"]) =>
              \A i \in 1..Len(CitedAreas.l) : CitationViolationsListed(CitedAreas.l[i], i - 1)

\* What the error list does hold: for a wrong key set, the extra and the missing
\* keys and nothing else; otherwise only the first violated rule among summary,
\* confidence and high_risk_areas; otherwise, for every citation, every
\* violated rule of that citation.
FirstTopLevelViolationOnly ==
    pc = "schema_validated" =>
        IF ~ExactKeySet
        THEN /\ \A k \in 1..Len(schema_errors) :
                   schema_errors[k].tpl \in {"Extra fields not allowed: {}",
                                             "Missing required fields: {}"}
             /\ Len(schema_errors) =
                   (IF DOMAIN output \ {"summary", "high_risk_areas", "confidence"} # {}
                    THEN 1 ELSE 0)
                   + (IF {"summary", "high_risk_areas", "confidence"} \ DOMAIN output # {}
                      THEN 1 ELSE 0)
        ELSE IF ~IsStr(output["summary"])
        THEN Len(schema_errors) = 1 /\ HasSchemaError("summary must be str, got {}")
        ELSE IF ~ConfidenceInEnum
        THEN /\ Len(schema_errors) = 1
             /\ HasSchemaError("confidence must be 'low', 'medium', or 'high', got {}")
        ELSE IF ~IsList(output["high_risk_areas"])
        THEN Len(schema_errors) = 1 /\ HasSchemaError("high_risk_areas must be list, got {}")
        ELSE \A i \in 1..Len(CitedAreas.l) : CitationViolationsListed(CitedAreas.l[i], i - 1)

\* the entries of citation_errors about the citation at 0-based index i
CitationErrorsAbout(i) ==
    SelectSeq(citation_errors,
              LAMBDA e : /\ e.tpl # "Duplicate citation: {} lines {}-{}"
                         /\ Len(e.n) >= 1 /\ e.n[1] = i)
\* the citation l[i] reaches the line test: it is well typed, positive where the
\* rules ask for it, repeats no earlier citation, is not reversed, and its
\* file has evidence lines
ReachesLineCheck(l, i, rules) ==
    /\ WellTyped(l[i])
    /\ rules => LineOf(l[i].d["line_start"]) >= 1 /\ LineOf(l[i].d["line_end"]) >= 1
    /\ \A j \in 1..(i - 1) : ~(WellTyped(l[j]) /\ CitationKey(l[j]) = CitationKey(l[i]))
    /\ LineOf(l[i].d["line_start"]) <= LineOf(l[i].d["line_end"])
    /\ l[i].d["file_path"].s \in EvidencePaths(retrieved_files)
\* the lines of the citation's range that the evidence of its file lacks
MissingLines(c) ==
    {x \in LineOf(c.d["line_start"]) .. LineOf(c.d["line_end"]) :
        x \notin evidence_lines(retrieved_files, c.d["file_path"].s)}
MissingLineError(c, i) ==
    LET avail == evidence_lines(retrieved_files, c.d["file_path"].s)
    IN Fmt("Citation {}: line {} in '{}' not found in evidence (evidence has lines {}-{})",
           <<c.d["file_path"].s>>,
           <<i,
             CHOOSE x \in MissingLines(c) : \A y \in MissingLines(c) : x <= y,
             CHOOSE x \in avail : \A y \in avail : x <= y,
             CHOOSE x \in avail : \A y \in avail : x >= y>>)

\* C19: a citation that passes the earlier checks and whose range the evidence
\* of its file does not cover gets exactly one error, which names the smallest
\* line of [line_start, line_end] absent from the evidence and the smallest and
\* greatest evidence line of the file; with evidence lines 1-50 and a citation
\* of lines 40-60 the error names line 51 and the bounds 1-50.
MissingLineDiagnostic ==
    /\ pc \in {"citations_validated", "citations_validated_rules"} /\ IsList(CitedAreas) =>
          \A i \in 1..Len(CitedAreas.l) :
              ReachesLineCheck(CitedAreas.l, i, pc = "citations_validated_rules")
              /\ MissingLines(CitedAreas.l[i]) # {}
              => CitationErrorsAbout(i - 1) = <<MissingLineError(CitedAreas.l[i], i - 1)>>
    /\ pc = "citations_validated"
       /\ "a.py" \in EvidencePaths(retrieved_files)
       /\ evidence_lines(retrieved_files, "a.py") = 1..50
       /\ CitedAreas = JList(<<Citation(JStr("a.py"), JInt(40), JInt(60), JStr("scenario"))>>)
          => citation_errors =
                <<Fmt("Citation {}: line {} in '{}' not found in evidence (evidence has lines {}-{})",
                      <<"a.py">>, <<0, 51, 1, 50>>)>>
\* the scenario: lines 1-50 retrieved, lines 40-60 cited
MissingLineDiagnosticWitness ==
    /\ pc = "citations_validated"
    /\ "a.py" \in EvidencePaths(retrieved_files)
    /\ evidence_lines(retrieved_files, "a.py") = 1..50
    /\ CitedAreas = JList(<<CiteScenario>>)
    /\ ~citations_valid /\ Len(citation_errors) = 1
\* a range that starts below evidence that does not start at line 1
MissingLineBelowChunk ==
    /\ pc = "citations_validated"
    /\ CitedAreas = JList(<<CiteInChunk, CiteChunk>>)
    /\ citation_errors =
          <<Fmt("Citation {}: line {} in '{}' not found in evidence (evidence has lines {}-{})",
                <<"a.py">>, <<1, 294, 295, 305>>)>>

\* the last record of a log
Last(log) == log[Len(log)]
\* this step appends a failed read_file record with attempt number n
FailsAttempt(n) ==
    /\ Len(tool_calls') = Len(tool_calls) + 1
    /\ Last(tool_calls').tool = "read_file"
    /\ Last(tool_calls').result_status = "error"
    /\ Last(tool_calls').attempt = n
EvidenceOf(rf, f) == SelectSeq(rf, LAMBDA x : x.tool = "read_file" /\ x.path = f)
ReadRecordsOf(tcs, f) == SelectSeq(tcs, LAMBDA c : c.tool = "read_file" /\ c.path = f)

\* C21: the step in which the third read attempt of a file fails ends three
\* failed attempts numbered 1, 2, 3 of that file, each of which added one to
\* the global failure counter (which stays within the global budget); it
\* appends exactly one evidence item for the file, with no lines and the
\* marker 'All read attempts failed', and the run stays in the Executor, at
\* the next file or the next step of the plan.
ExhaustedFile ==
    [][FailsAttempt(MAX_FILE_RETRIES) =>
          LET n == Len(tool_calls')
              f == Last(tool_calls').path
          IN /\ \A a \in 1..MAX_FILE_RETRIES :
                    /\ tool_calls'[n - MAX_FILE_RETRIES + a].tool = "read_file"
                    /\ tool_calls'[n - MAX_FILE_RETRIES + a].path = f
                    /\ tool_calls'[n - MAX_FILE_RETRIES + a].result_status = "error"
                    /\ tool_calls'[n - MAX_FILE_RETRIES + a].attempt = a
                    /\ tool_calls'[n - MAX_FILE_RETRIES + a].returned = 0
             /\ Len(ReadRecordsOf(tool_calls', f)) = MAX_FILE_RETRIES
             /\ global_failures' = global_failures + 1
             /\ global_failures' = Len(FailedReadCalls')
             /\ global_failures' >= MAX_FILE_RETRIES
             /\ global_failures' <= MAX_GLOBAL_RETRIES
             /\ retrieved_files' = Append(retrieved_files, Last(retrieved_files'))
             /\ Last(retrieved_files').path = f
             /\ Last(retrieved_files').lines = <<>>
             /\ Last(retrieved_files').error = "All read attempts failed"
             /\ ~Last(retrieved_files').is_binary
             /\ Len(EvidenceOf(retrieved_files', f)) = 1
             /\ pc' = "execute"
             /\ \/ readIdx' = readIdx + 1 /\ stepIdx' = stepIdx
                \/ readIdx' = 0 /\ stepIdx' = stepIdx + 1
      ]_vars
\* a file was exhausted and a later file was still read: the run went on to END
ExhaustedFileWitness ==
    /\ pc = "END"
    /\ \E i \in 1..Len(retrieved_files) :
          /\ retrieved_files[i].error = ErrAllFailed
          /\ Len(SelectSeq(ReadCallsOf(retrieved_files[i].path),
                           LAMBDA c : c.result_status = "error")) = MAX_FILE_RETRIES
          /\ \E j \in (i + 1)..Len(retrieved_files) :
                retrieved_files[j].tool = "read_file" /\ retrieved_files[j].lines # <<>>

-----------------------------------------------------------------------------
(* Fallback strategy of _read_with_retries *)

FullRead(a) == a.line_start = 0 /\ a.line_end = 0 /\ a.max_lines = FullReadMaxLines
ChunkRead(a) == a.line_start = 1 /\ a.line_end = ChunkFallbackEnd

\* record i of the read_file records is an attempt that follows a failed
\* attempt for the same file
FollowsFailure(i) ==
    /\ i > 1
    /\ ReadCalls[i - 1].path = ReadCalls[i].path
    /\ ReadCalls[i - 1].result_status = "error"
    /\ ReadCalls[i].attempt = ReadCalls[i - 1].attempt + 1

\* C22: when the task requests no line range, every read_file call has one
\* record; the first attempt for a file is a full read (max_lines = 5000, no
\* line range), every attempt that follows a failed attempt for the same file
\* is a chunk read of lines 1-200, and the first attempt for the next file is
\* a full read again.
FallbackOrdering ==
    TaskChunk(task)[1] = 0 =>
        /\ Len(readArgs) = Len(ReadCalls)
        /\ \A i \in 1..Len(ReadCalls) :
            /\ readArgs[i].path = ReadCalls[i].path
            /\ ReadCalls[i].attempt = 1 <=> ~FollowsFailure(i)
            /\ ReadCalls[i].attempt = 1 => FullRead(readArgs[i])
            /\ FollowsFailure(i) => ChunkRead(readArgs[i]) /\ ~FullRead(readArgs[i])

\* a failed full read, then the chunk read of the same file, then the full
\* read of the next file
FallbackOrderingWitness ==
    /\ pc = "END"
    /\ \E i \in 1..Len(ReadCalls) :
        /\ i + 2 <= Len(ReadCalls)
        /\ ReadCalls[i].attempt = 1 /\ ReadCalls[i].result_status = "error"
        /\ FollowsFailure(i + 1) /\ ChunkRead(readArgs[i + 1])
        /\ ReadCalls[i + 1].result_status = "success"
        /\ ReadCalls[i + 2].path # ReadCalls[i].path
        /\ FullRead(readArgs[i + 2])

-----------------------------------------------------------------------------
(* File selection of the "Read relevant files" step on a wider repository *)

WideRegular == [f \in WideFileSet |-> "regular"]
WideEmpty == [f \in WideFileSet |-> "absent"]

\* runs on a repository of 14 readable files or on an empty one, with the tasks
\* of Spec and two more: one names b.py, one names 11 files
WideInit ==
    /\ task \in Tasks \cup {TaskB, TaskMany, TaskWin}
    /\ fs \in {WideRegular, WideEmpty}
    /\ listWorks \in BOOLEAN
    /\ list_max_files = MaxFilesDefault
    /\ content_validation = RangeOnly
    /\ InitCwd
    /\ InitAgent
    /\ InitExec
    /\ pc = "call"
    /\ modelCalls = 0
    /\ summarizeRuns = 0
    /\ injected = 0
    /\ readArgs = <<>>
    /\ prompts = <<>>
    /\ lastWrite = "init"

WideSpec == WideInit /\ [][Next]_vars

\* the files passed to read_file so far
FilesRead == {readArgs[i].path : i \in 1..Len(readArgs)}
\* f is one of the file names of the task text
NamedInTask(f) == InSeq(f, _extract_task_files(task))

\* at most 10 files are passed to read_file
ReadCapHolds == Cardinality(FilesRead) <= ReadCap
\* no file that the task does not name is read before a file that it names
NamedFilesFirst ==
    \A i, j \in 1..Len(readArgs) :
        (i < j /\ NamedInTask(readArgs[j].path)) => NamedInTask(readArgs[i].path)

\* C23: in any run at most 10 files are passed to read_file, and the files
\* named in the task are read before any file chosen by the ranking table.
ReadCapAndPriority == ReadCapHolds /\ NamedFilesFirst

\* with a file list, the step reads at most 10 files, the listed files matched
\* by a task name first
ReadCapWithListing == listed_files # <<>> => ReadCapHolds

-----------------------------------------------------------------------------
(* Order of the tool calls *)

\* the executor has returned
Executed == pc \notin {"call", "plan", "execute"} /\ plan # <<>>

\* C24: the first tool-call record of a run is a list_files record, so no
\* read_file record precedes it, whether list_files succeeded or raised; when
\* the executor has returned the run has such a record.
ListFilesFirst ==
    /\ tool_calls # <<>> => tool_calls[1].tool = "list_files"
    /\ \A i \in 1..Len(tool_calls) :
        tool_calls[i].tool = "read_file" =>
            \E j \in 1..(i - 1) : tool_calls[j].tool = "list_files"
    /\ Executed => tool_calls # <<>>

\* a run whose list_files call raised and which then read a file
ListFilesFirstWitness ==
    /\ pc = "END"
    /\ Len(tool_calls) >= 2
    /\ tool_calls[1].tool = "list_files" /\ tool_calls[1].result_status = "error"
    /\ tool_calls[2].tool = "read_file" /\ tool_calls[2].result_status = "success"

-----------------------------------------------------------------------------
(* Working directory of the process around run_langgraph_agent *)

\* run_langgraph_agent has returned or raised and the with block is left
RunOver == pc \in {"END", "raised"} /\ pushd_prev = NoneVal

\* C25: when run_langgraph_agent has returned or raised, the working
\* directory is the one the process had when it was called; inside the run it
\* is the repository's directory.
CwdRestored ==
    /\ RunOver => cwd = cwd_before
    /\ pc \notin {"call", "END", "raised"} => cwd = RepoDir /\ pushd_prev = cwd_before

\* a run that raised inside the with block (the model client could not be
\* built) and is back in the caller's directory
CwdRestoredWitness ==
    /\ pc = "raised" /\ pushd_prev = NoneVal
    /\ summarizeRuns >= 1
    /\ cwd = cwd_before /\ cwd # RepoDir

-----------------------------------------------------------------------------
(* The evidence tools called on their own: tools/read_file.py *)

\* the paths the file system of these calls holds, normalised
ToolFileSet == {"a.py", "data.db", "LICENSE", "vendor/a.py"}
\* only a path below a directory can lie outside the root without being a link
ToolFsStates ==
    {f \in [ToolFileSet -> {"absent", "regular", "symlink", "escapes"}] :
        \A p \in ToolFileSet : f[p] = "escapes" => p = "vendor/a.py"}
\* the rel_path arguments
ToolPaths == {"a.py", "./a.py", "vendor/../a.py", "../a.py", "vendor/../../a.py",
              "/repo/a.py", "/etc/passwd", "data.db", "../data.db", "LICENSE",
              "vendor/a.py", "ghost.py", ".."}

\* the paths the file system of a list_files call holds
ListFileSet == {"a.py", "data.db", "vendor/a.py", ".git/config", "vendor/node_modules/m.js"}
ListFsStates == [ListFileSet -> {"absent", "regular"}]
\* the max_files arguments: small ones that the trees reach, and the default
ListBounds == {1, 2, 3, MaxFilesDefault}

\* one call of a tool is about to be made: of read_file, with the rel_path
\* argument in to_read, or of list_files
\* a repository whose only file is a.py, and the lengths and the arguments
\* max_lines, line_start, line_end (0: None) of the reads of it
RangeFs == [p \in ToolFileSet |-> IF p = "a.py" THEN "regular" ELSE "absent"]
MaxTotalLines == 4
MaxLinesArgs == 1..3
RangeArgs == -1..5

TInit ==
    /\ task = TaskGeneral
    /\ listWorks = TRUE
    /\ \/ /\ pc = "tool_inputs"
          /\ fs \in ToolFsStates
          /\ \E p \in ToolPaths : to_read = <<p>>
          /\ use_chunk_fallback \in BOOLEAN
          /\ list_max_files = MaxFilesDefault
          /\ content_validation = RangeOnly
       \/ /\ pc = "range_inputs"
          /\ fs = RangeFs
          /\ to_read = <<"a.py">>
          /\ use_chunk_fallback = FALSE
          /\ list_max_files = MaxFilesDefault
          /\ content_validation = RangeOnly
       \/ /\ pc = "list_inputs"
          /\ fs \in ListFsStates
          /\ to_read = <<>>
          /\ use_chunk_fallback = FALSE
          /\ list_max_files \in ListBounds
          /\ content_validation = RangeOnly
    /\ cwd = RepoDir
    /\ cwd_before = "/work"
    /\ pushd_prev = cwd_before
    /\ InitAgent
    /\ stepIdx = 1
    /\ listed_files = <<>>
    /\ list_files_succeeded = FALSE
    /\ global_failures = 0
    /\ readIdx = 1
    /\ attempt = 1
    /\ modelCalls = 0
    /\ summarizeRuns = 0
    /\ injected = 0
    /\ readArgs = <<>>
    /\ prompts = <<>>
    /\ lastWrite = "init"

\* the directory part of a relative path, with its slash; "" for the root
DirOf(p) == SubSeq(p, 1, RFind(p, "/", Len(p)))

\* the orders in which os.walk can reach the files of the tree: the entries of
\* a directory come in any order, a directory's files before the files of the
\* directories below it
Walks ==
    LET present == {p \in DOMAIN fs : fs[p] \in {"regular", "symlink"}}
    IN {w \in [1..Cardinality(present) -> present] :
          /\ \A i, j \in DOMAIN w : i # j => w[i] # w[j]
          /\ \A i, j \in DOMAIN w :
                (i < j /\ DirOf(w[i]) # DirOf(w[j]))
                    => ~StartsWith(DirOf(w[i]), DirOf(w[j]))}

\* result = list_files(repo_path, max_files=list_max_files), and the records
\* execute_plan keeps of the call
call_list_files ==
    /\ pc = "list_inputs"
    /\ \E walk \in Walks :
        LET res == list_files(walk)
        IN /\ tool_calls' = <<ListToolCall(res)>>
           /\ retrieved_files' = <<ListEvidence(res)>>
           /\ listed_files' = res.files
           /\ list_files_succeeded' = TRUE
    /\ pc' = "list_returned"
    /\ UNCHANGED <<envVars, plan, output, schema_valid, citations_valid, schema_errors,
                   citation_errors, llm_attempts, max_llm_attempts,
                   last_validation_feedback, route_decision, stepIdx, global_failures,
                   to_read, readIdx, attempt, use_chunk_fallback, histVars>>

\* res = read_file(repo_path, rel_path, ...) with the arguments of a full or of
\* a chunk read, and the records _read_with_retries keeps of the call
call_read_file ==
    /\ pc = "tool_inputs"
    /\ LET res == read_attempt(task, to_read[1], use_chunk_fallback)
       IN /\ tool_calls' = <<ReadToolCall(to_read[1], res, attempt)>>
          /\ retrieved_files' = IF res.raised THEN <<>> ELSE <<ReadEvidence(res)>>
    /\ readArgs' = <<read_args(task, to_read[1], use_chunk_fallback)>>
    /\ pc' = "tool_returned"
    /\ UNCHANGED <<envVars, plan, output, schema_valid, citations_valid, schema_errors,
                   citation_errors, llm_attempts, max_llm_attempts,
                   last_validation_feedback, route_decision, execVars, modelCalls,
                   summarizeRuns, injected, prompts, lastWrite>>

\* res = read_file(repo_path, rel_path, max_lines, line_start, line_end) on a
\* text file of total lines, and the evidence item made of the result
call_read_file_range ==
    /\ pc = "range_inputs"
    /\ \E norm \in {normpath(to_read[1])} :
        /\ ~IsTraversalPath(norm) /\ ~islink(norm) /\ ~EscapesRoot(norm)
        /\ isfile(norm) /\ ~IsUnsupported(norm)
        /\ \E total \in 0..MaxTotalLines, max_lines \in MaxLinesArgs,
              line_start \in RangeArgs, line_end \in RangeArgs :
             \E res \in {read_text(norm, total, max_lines, line_start, line_end)} :
                /\ tool_calls' = <<ReadToolCall(to_read[1], res, attempt)>>
                /\ retrieved_files' = <<ReadEvidence(res)>>
                /\ readArgs' = <<[path |-> to_read[1], max_lines |-> max_lines,
                                  line_start |-> line_start, line_end |-> line_end]>>
    /\ pc' = "range_returned"
    /\ UNCHANGED <<envVars, plan, output, schema_valid, citations_valid, schema_errors,
                   citation_errors, llm_attempts, max_llm_attempts,
                   last_validation_feedback, route_decision, execVars, modelCalls,
                   summarizeRuns, injected, prompts, lastWrite>>

TNext ==
    \/ call_read_file
    \/ call_list_files
    \/ call_read_file_range

ToolSpec == TInit /\ [][TNext]_vars

RECURSIVE Climbs(_, _)
\* walking the components from a directory `depth` levels below the root
\* leaves the root at some point
Climbs(comps, depth) ==
    IF comps = <<>> THEN FALSE
    ELSE IF Head(comps) = ".." THEN depth = 0 \/ Climbs(Tail(comps), depth - 1)
    ELSE IF Head(comps) \in {"", "."} THEN Climbs(Tail(comps), depth)
    ELSE Climbs(Tail(comps), depth + 1)

\* the path of the call escapes to a parent directory, is absolute, is a
\* symbolic link, or resolves outside the root
UnsafePath ==
    \/ Climbs(Split(to_read[1], 1, ""), 0)
    \/ Ch(to_read[1], 1) = "/"
    \/ FsKind(normpath(to_read[1])) \in {"symlink", "escapes"}

SecurityErrors == {ErrTraversal, ErrSymlink, ErrEscape}

\* C26: a read_file call on a path that escapes to a parent directory, is
\* absolute, is a symbolic link or resolves outside the root returns nothing:
\* it raises a security error (never "file not found", never the binary
\* marker), whatever is or is not at the path.
ReadConfinement ==
    (pc = "tool_returned" /\ UnsafePath) =>
        /\ retrieved_files = <<>>
        /\ tool_calls[1].result_status = "error"
        /\ tool_calls[1].returned = 0
        /\ tool_calls[1].error \in SecurityErrors

\* a parent escape to a file of an unsupported type is refused as traversal
ReadConfinementWitness ==
    /\ pc = "tool_returned"
    /\ to_read = <<"../data.db">>
    /\ UnsafePath
    /\ tool_calls[1].error = ErrTraversal
    /\ retrieved_files = <<>>


\* the call was made on a regular file inside the root
ReadsRegularFile ==
    /\ pc = "tool_returned"
    /\ ~UnsafePath
    /\ FsKind(normpath(to_read[1])) = "regular"
\* the extension of the file of the call
ExtensionRead == splitext(normpath(to_read[1]))
\* the call returned the binary marker: no exception, is_binary, no lines
ReturnedBinaryMarker ==
    /\ tool_calls[1].result_status = "success"
    /\ tool_calls[1].is_binary
    /\ tool_calls[1].returned = 0
    /\ retrieved_files[1].lines = <<>>

\* C27: read_file returns text lines only for a file whose extension is on the
\* allow-list; for every other regular file inside the root it returns the
\* binary marker: is_binary, no lines, no exception.
BinaryMarker ==
    ReadsRegularFile =>
        /\ tool_calls[1].returned > 0 => ExtensionRead \in TEXT_EXTENSIONS
        /\ ExtensionRead \notin TEXT_EXTENSIONS => ReturnedBinaryMarker

\* what holds: the marker is returned for every extension that is not empty
\* and not on the list, and lines only for a listed or an empty extension
BinaryMarkerForExtensions ==
    ReadsRegularFile =>
        /\ tool_calls[1].returned > 0 => ExtensionRead \in TEXT_EXTENSIONS \cup {""}
        /\ ExtensionRead \notin TEXT_EXTENSIONS \cup {""} => ReturnedBinaryMarker

-----------------------------------------------------------------------------
(* The evidence tools called on their own: tools/list_files.py *)

\* the sequence is in ascending str order
IsSortedStr(fl) == \A i, j \in 1..Len(fl) : i < j => StrLess(fl[i], fl[j])
\* no path of the sequence lies below a junk directory
NoJunk(fl) == \A i \in 1..Len(fl) : ~UnderIgnored(fl[i], DEFAULT_IGNORE_DIRS)
\* the paths are relative and stay below the root
AllRelative(fl) == \A i \in 1..Len(fl) : ~isabs(fl[i]) /\ ~Climbs(Split(fl[i], 1, ""), 0)

\* C28: list_files returns relative paths in sorted order, at most max_files of
\* them, none below an ignored junk directory, and the order is sorted whether
\* or not the bound was reached.
ListFilesResult ==
    pc = "list_returned" =>
        /\ AllRelative(listed_files)
        /\ IsSortedStr(listed_files)
        /\ Len(listed_files) <= list_max_files
        /\ NoJunk(listed_files)

\* what holds: relative paths, at most max_files, no junk; sorted when the
\* bound was not reached, and then every file outside the junk directories is
\* in the result
ListFilesBelowBound ==
    pc = "list_returned" =>
        /\ AllRelative(listed_files)
        /\ Len(listed_files) <= list_max_files
        /\ NoJunk(listed_files)
        /\ Len(listed_files) < list_max_files =>
            /\ IsSortedStr(listed_files)
            /\ \A p \in DOMAIN fs :
                (fs[p] = "regular" /\ ~UnderIgnored(p, DEFAULT_IGNORE_DIRS))
                    => InSeq(p, listed_files)


-----------------------------------------------------------------------------
(* What the model is given: context notes and retry feedback *)

\* the notes the Analyzer built on the call_llm route; the evidence is not
\* changed after the executor has returned
AnalyzerNotes == context_notes(task, retrieved_files)
OnLlmRoute == AfterAnalyze /\ route_decision = "call_llm"

\* C29: on the call_llm route every model invocation of the run, retries
\* included, has the Analyzer's context notes in its prompt, and the final
\* output does not hold them.
NotesInEveryPrompt ==
    OnLlmRoute =>
        /\ \A i \in 1..Len(prompts) : prompts[i].context_notes = AnalyzerNotes
        /\ pc = "END" => "_context_notes" \notin DOMAIN output

\* what holds: the first invocation has the notes, the final output has not
NotesInFirstPrompt ==
    OnLlmRoute =>
        /\ prompts # <<>> => prompts[1].context_notes = AnalyzerNotes
        /\ pc = "END" => "_context_notes" \notin DOMAIN output

\* every retry invocation is given no note at all
NoNotesOnRetry ==
    \A i \in 2..Len(prompts) : prompts[i].context_notes = <<>>

\* the feedback string of a verify pass that found the errors serrs and cerrs:
\* one line per failed check, its label before its errors; None when both passed
LabelledFeedback(sv, serrs, cv, cerrs) ==
    IF sv /\ cv THEN NoFeedback
    ELSE IF ~sv /\ ~cv
    THEN Feedback(<<[label |-> "SCHEMA ERRORS: ", errs |-> serrs],
                    [label |-> "CITATION ERRORS: ", errs |-> cerrs]>>)
    ELSE IF ~sv THEN Feedback(<<[label |-> "SCHEMA ERRORS: ", errs |-> serrs]>>)
    ELSE Feedback(<<[label |-> "CITATION ERRORS: ", errs |-> cerrs]>>)

\* what the verify pass on the present output found
VerifyFound == verify_output(task, output, retrieved_files, tool_calls)
FeedbackOfVerify ==
    LabelledFeedback(VerifyFound.schema_valid, VerifyFound.schema_errors,
                     VerifyFound.citations_valid, VerifyFound.citation_errors)

\* after a verify pass the feedback is built from that pass's error lists, and
\* it is None exactly when the pass found the output valid
FeedbackAfterVerify ==
    pc = "should_retry" =>
        /\ last_validation_feedback =
              LabelledFeedback(schema_valid, schema_errors, citations_valid, citation_errors)
        /\ (schema_valid /\ citations_valid) <=> last_validation_feedback = NoFeedback

\* a retry is about to call the model: should_retry has cleared the error
\* lists, the feedback still is the one of the verify pass before it
FeedbackKeptForRetry ==
    (pc = "summarize" /\ llm_attempts >= 1) =>
        /\ schema_errors = <<>> /\ citation_errors = <<>>
        /\ last_validation_feedback = FeedbackOfVerify
        /\ last_validation_feedback # NoFeedback

\* the invocation summarize makes is given None when it is the first, and on a
\* retry the feedback of the verify pass on the previous attempt's output
FeedbackGiven ==
    Len(prompts') = Len(prompts) + 1 =>
        /\ SubSeq(prompts', 1, Len(prompts)) = prompts
        /\ Last(prompts').retry_feedback =
              IF llm_attempts = 0 THEN NoFeedback ELSE FeedbackOfVerify
        /\ llm_attempts = 0 <=> prompts = <<>>

\* C30: the first model invocation receives no retry feedback; each retry
\* invocation receives the feedback the preceding verify pass built from its
\* schema and citation errors, each under its label, although should_retry has
\* cleared the error lists in between; a verify pass that finds the output
\* valid sets the feedback to None.
RetryFeedback ==
    /\ [](FeedbackAfterVerify /\ FeedbackKeptForRetry)
    /\ [][FeedbackGiven]_vars

\* a verify pass on any output, valid or not, built the labelled feedback
FeedbackOfAnyOutput ==
    pc = "verified" =>
        last_validation_feedback =
            LabelledFeedback(schema_valid, schema_errors, citations_valid, citation_errors)

\* a run whose retry was given the labelled citation errors of the first
\* attempt and whose second verify pass found the output valid and reset the
\* feedback
RetryFeedbackWitness ==
    /\ pc = "should_retry"
    /\ Len(prompts) = 2
    /\ prompts[1].retry_feedback = NoFeedback
    /\ Len(prompts[2].retry_feedback.parts) = 1
    /\ prompts[2].retry_feedback.parts[1].label = "CITATION ERRORS: "
    /\ prompts[2].retry_feedback.parts[1].errs # <<>>
    /\ schema_valid /\ citations_valid
    /\ last_validation_feedback = NoFeedback

----------------------------------------------------------------------------
(* C31: order of the checks of one citation *)

\* the citations validate_citations iterates over
IteratedAreas == IF Truthy(CitedAreas) THEN Elements(CitedAreas) ELSE <<>>
\* the rules of the call that was made
WithRules == pc \in {"citations_validated_rules", "content_validated_rules"}
CitationsValidated == pc \in {"citations_validated", "citations_validated_rules"}

\* the checks in the order of the claim
CheckOrder == <<"type", "nonpositive", "duplicate", "reversed", "no_evidence",
                "no_lines", "missing_line">>
\* citation j gets as far as the duplicate test, where its key is looked up
ReachesDuplicateTest(j) ==
    /\ WellTyped(IteratedAreas[j])
    /\ ~(WithRules /\ (CitationKey(IteratedAreas[j])[2] < 1
                          \/ CitationKey(IteratedAreas[j])[3] < 1))
\* the keys of the citations before citation j that got as far as the duplicate test
KeysBefore(j) ==
    {CitationKey(IteratedAreas[k]) : k \in {m \in 1..(j - 1) : ReachesDuplicateTest(m)}}
\* citation j, taken alone, does not pass the named check
FailsCheck(name, j) ==
    IF ~WellTyped(IteratedAreas[j]) THEN name = "type"
    ELSE CASE name = "type" -> FALSE
           [] name = "nonpositive" -> ~ReachesDuplicateTest(j)
           [] name = "duplicate" -> CitationKey(IteratedAreas[j]) \in KeysBefore(j)
           [] name = "reversed" ->
                CitationKey(IteratedAreas[j])[2] > CitationKey(IteratedAreas[j])[3]
           [] name = "no_evidence" ->
                CitationKey(IteratedAreas[j])[1] \notin EvidencePaths(retrieved_files)
           [] name = "no_lines" ->
                /\ CitationKey(IteratedAreas[j])[1] \in EvidencePaths(retrieved_files)
                /\ evidence_lines(retrieved_files, CitationKey(IteratedAreas[j])[1]) = {}
           [] name = "missing_line" ->
                /\ CitationKey(IteratedAreas[j])[1] \in EvidencePaths(retrieved_files)
                /\ \E x \in CitationKey(IteratedAreas[j])[2] .. CitationKey(IteratedAreas[j])[3] :
                      x \notin evidence_lines(retrieved_files, CitationKey(IteratedAreas[j])[1])
\* the first check of CheckOrder that citation j fails, "none" when it passes all
FirstFailing(j) ==
    IF \A c \in 1..Len(CheckOrder) : ~FailsCheck(CheckOrder[c], j) THEN "none"
    ELSE CheckOrder[CHOOSE c \in 1..Len(CheckOrder) :
                        /\ FailsCheck(CheckOrder[c], j)
                        /\ \A d \in 1..(c - 1) : ~FailsCheck(CheckOrder[d], j)]
\* the check an error message reports
ErrorKind(e) ==
    CASE e.tpl \in {"Citation {} is not a dict", "Citation {}: file_path is not a string",
                    "Citation {}: line_start is not an int",
                    "Citation {}: line_end is not an int"} -> "type"
      [] e.tpl = "Citation {}: invalid line number (line_start={}, line_end={}); negative or zero line numbers rejected" -> "nonpositive"
      [] e.tpl = "Duplicate citation: {} lines {}-{}" -> "duplicate"
      [] e.tpl = "Citation {}: line_start ({}) > line_end ({})" -> "reversed"
      [] e.tpl = "Citation {}: file '{}' not found in retrieved evidence" -> "no_evidence"
      [] e.tpl = "Citation {}: file '{}' has no readable lines in evidence" -> "no_lines"
      [] e.tpl = "Citation {}: line {} in '{}' not found in evidence (evidence has lines {}-{})"
            -> "missing_line"
      [] e.tpl = "Citation covers line {} in '{}' which does not contain expected text for the cited function"
            -> "content"
      [] OTHER -> "other"
\* the positions of the citations that fail some check, in list order
FailingCitations == {j \in 1..Len(IteratedAreas) : FirstFailing(j) # "none"}
\* the n-th failing citation
NthFailing(n) ==
    CHOOSE j \in FailingCitations : Cardinality({k \in FailingCitations : k <= j}) = n
\* a citation of the scenario that is not a repetition of an earlier one
ScenarioCitations ==
    {j \in 1..Len(IteratedAreas) :
        /\ IteratedAreas[j] = CiteThirty
        /\ CitationKey(CiteThirty) \notin KeysBefore(j)}

\* C31: validate_citations handles the citations in list order; each citation
\* that fails contributes exactly one error, the one of the first check it fails
\* in the order type, non-positive (with rules), duplicate, reversed bounds, file
\* without evidence, file without evidence lines, missing line; a citation that
\* passes contributes none; the citation (a.py, 30, 25) gets the error
\* "line_start (30) > line_end (25)".
CitationCheckOrder ==
    CitationsValidated =>
        /\ Len(citation_errors) = Cardinality(FailingCitations)
        /\ \A n \in 1..Len(citation_errors) :
              ErrorKind(citation_errors[n]) = FirstFailing(NthFailing(n))
        /\ \A j \in ScenarioCitations :
              \E n \in 1..Len(citation_errors) :
                  citation_errors[n] = Fmt("Citation {}: line_start ({}) > line_end ({})",
                                           <<>>, <<j - 1, 30, 25>>)
\* a list whose second citation repeats a reversed one and whose first names a
\* file without evidence was validated, and so was the scenario's citation
CitationCheckOrderWitness ==
    /\ CitationsValidated
    /\ Len(IteratedAreas) = 2
    /\ IteratedAreas[1] = CiteGhost /\ IteratedAreas[2] = CiteThirty
    /\ Len(citation_errors) = 2
    /\ ErrorKind(citation_errors[1]) = "no_evidence"
    /\ ErrorKind(citation_errors[2]) = "reversed"

----------------------------------------------------------------------------
(* C32: content-aware mode *)

ContentValidated == pc \in {"content_validated", "content_validated_rules"}
\* a citation that passed every range check and whose range holds the line of
\* the assertion
SurvivorsCovering(a) ==
    {j \in 1..Len(IteratedAreas) :
        /\ FirstFailing(j) = "none"
        /\ CitationKey(IteratedAreas[j])[1] = a.file
        /\ CitationKey(IteratedAreas[j])[2] <= a.line
        /\ a.line <= CitationKey(IteratedAreas[j])[3]}
\* the recorded text of the assertion's line holds the text, whatever the case
LineHoldsText(a) ==
    /\ a.file \in EvidencePaths(retrieved_files)
    /\ a.line \in evidence_lines(retrieved_files, a.file)
    /\ StrContains(Lower(evidence_text(retrieved_files, a.file, a.line)),
                   Lower(a.must_not_contain_text))
ContentErrorReported(a) ==
    \E n \in 1..Len(citation_errors) : citation_errors[n] = ContentError(a)

\* C32: in content-aware mode, for an assertion 'file F, line L must not contain
\* text T', a content error is reported exactly when some citation that passed
\* the range checks covers line L and the recorded text of line L contains T
\* (case-insensitively).
ContentGrounding ==
    ContentValidated =>
        \A k \in 1..Len(content_validation.assertions) :
            ContentErrorReported(content_validation.assertions[k])
                <=> /\ SurvivorsCovering(content_validation.assertions[k]) # {}
                    /\ LineHoldsText(content_validation.assertions[k])
\* what the code does: a content error for every citation with integer bounds
\* that covers line L, whether or not it passed the range checks, when the
\* recorded text of line L does not contain T
ContentErrorsOfCode ==
    ContentValidated =>
        \A k \in 1..Len(content_validation.assertions) :
            Cardinality({n \in 1..Len(citation_errors) :
                            citation_errors[n] = ContentError(content_validation.assertions[k])})
            = IF LineHoldsText(content_validation.assertions[k]) THEN 0
              ELSE Cardinality({j \in 1..Len(IteratedAreas) :
                      /\ WellTyped(IteratedAreas[j])
                      /\ CitationKey(IteratedAreas[j])[1] = content_validation.assertions[k].file
                      /\ CitationKey(IteratedAreas[j])[2] <= content_validation.assertions[k].line
                      /\ content_validation.assertions[k].line <= CitationKey(IteratedAreas[j])[3]
                      /\ content_validation.assertions[k].file
                            \in EvidencePaths(retrieved_files)
                      /\ content_validation.assertions[k].line
                            \in evidence_lines(retrieved_files,
                                               content_validation.assertions[k].file)})

----------------------------------------------------------------------------
(* C33: the Summarizer's outputs and the schema *)

\* verify_output has run on an output of the Summarizer
VerifyPass == pc = "verify" /\ pc' = "should_retry"
\* should_retry returns "retry"
RetryTaken == pc = "should_retry" /\ pc' = "summarize"

\* C33: on the call_llm route every verify pass ends with schema_valid = True
\* and no schema error, and every retry is taken with a valid schema and a
\* failed citation check.
SummarizerSchemaValid ==
    /\ [][VerifyPass => /\ route_decision = "call_llm"
                        /\ schema_valid' /\ schema_errors' = <<>>
                        /\ validate_output_schema(output)[1]]_vars
    /\ [][RetryTaken => /\ schema_valid /\ schema_errors = <<>>
                        /\ ~citations_valid /\ citation_errors # <<>>]_vars
\* the second verify pass of a run, on a response whose summary was no string
\* and whose citation list held entries of wrong types
SummarizerSchemaValidWitness ==
    /\ pc = "should_retry"
    /\ llm_attempts = 2
    /\ output["summary"] = JStr(Lit("Cannot analyze reliably."))
    /\ output["high_risk_areas"] = JList(<<CiteReversed>>)
    /\ schema_valid /\ ~citations_valid

----------------------------------------------------------------------------
(* C34: validation flags and error lists *)

FlagsMatchLists ==
    /\ schema_valid <=> schema_errors = <<>>
    /\ citations_valid <=> citation_errors = <<>>
\* a flag is False and its error list is empty
FalseWithoutError ==
    \/ ~schema_valid /\ schema_errors = <<>>
    \/ ~citations_valid /\ citation_errors = <<>>
\* a flag is True and its error list is not empty
TrueWithError ==
    \/ schema_valid /\ schema_errors # <<>>
    \/ citations_valid /\ citation_errors # <<>>
\* should_retry has reset the fields and verify_output has not run since
AfterReset ==
    \/ lastWrite = "should_retry"
    \/ lastWrite = "summarize" /\ summarizeRuns >= 2
\* the fields still hold the defaults of AgentState: neither verify_output nor
\* node_handle_error has run
NoVerdictYet ==
    \/ lastWrite \in {"init", "analyze"}
    \/ lastWrite = "summarize" /\ summarizeRuns = 1

\* C34 as stated: at END each flag is True iff its error list is empty, and a
\* flag is False with an empty list only in the states, not terminal, between
\* the reset of should_retry and the next verify pass.
FlagListConsistencyOnlyAfterReset ==
    /\ pc = "END" => FlagsMatchLists
    /\ FalseWithoutError => pc # "END" /\ AfterReset

\* C34: at END each flag is True iff its error list is empty; a flag is never
\* True with a non-empty list; a flag is False with an empty list only in
\* states that are not END: before the first verdict of the run (the defaults of
\* AgentState) and between the reset of should_retry and the next verify pass.
FlagListConsistency ==
    /\ pc = "END" => FlagsMatchLists
    /\ ~TrueWithError
    /\ FalseWithoutError => pc # "END" /\ (NoVerdictYet \/ AfterReset)
\* a run ended after a retry with a valid schema and a failed citation check
FlagListConsistencyWitness ==
    /\ pc = "END"
    /\ summarizeRuns = 2
    /\ schema_valid /\ schema_errors = <<>>
    /\ ~citations_valid /\ citation_errors # <<>>
\* the fields between the reset and the second verify pass
FlagListAfterResetWitness ==
    /\ pc = "verify" /\ AfterReset
    /\ FalseWithoutError

----------------------------------------------------------------------------
(* C35: the validation flags of the pre-built answers *)

SkipLlmEnd == pc = "END" /\ route_decision = "skip_llm"
\* a read_file record of the run carries a symlink, traversal or escape error
SecurityRecordPresent ==
    \E i \in 1..Len(retrieved_files \o tool_calls) :
        /\ (retrieved_files \o tool_calls)[i].tool = "read_file"
        /\ (retrieved_files \o tool_calls)[i].error \in {ErrSymlink, ErrTraversal, ErrEscape}
\* the task names a file that was read as binary
BinaryNamedInTask ==
    \E i \in 1..Len(retrieved_files) :
        /\ retrieved_files[i].tool = "read_file"
        /\ retrieved_files[i].is_binary
        /\ InSeq(retrieved_files[i].path, TaskNames(task))
OverrideApplies ==
    _is_path_traversal_task(task) \/ BinaryNamedInTask \/ SecurityRecordPresent
EmptyRepoAnswer == output["summary"] = JStr(SummaryEmptyRepo)
ReadsFailedAnswer ==
    output["summary"].s.tpl = "Cannot analyze: all file reads failed ({})."

SkipLlmPlainWitness ==
    /\ SkipLlmEnd
    /\ ReadsFailedAnswer
    /\ ~OverrideApplies
    /\ schema_valid /\ citations_valid

----------------------------------------------------------------------------
(* C36: the attempt counter *)

\* C36: at END llm_attempts is 0 on the error and skip_llm routes and between 1
\* and max_llm_attempts on the call_llm route, and it equals the number of model
\* invocations; whenever summarize is about to run, the evidence block is not
\* empty, so the shortcut that returns without calling the model is never taken.
AttemptsCountModelCalls ==
    /\ pc = "END" =>
          /\ llm_attempts = modelCalls
          /\ route_decision \in {"error", "skip_llm"} => llm_attempts = 0
          /\ route_decision = "call_llm" =>
                llm_attempts >= 1 /\ llm_attempts <= max_llm_attempts
    /\ pc = "summarize" =>
          route_decision = "call_llm" /\ _evidence_blob(retrieved_files) # <<>>
    /\ pc \in {"verify", "should_retry"} => output # NoEvidenceOutput
\* a run ended after two model calls; one file of the run could not be read
AttemptsCountModelCallsWitness ==
    /\ pc = "END"
    /\ route_decision = "call_llm"
    /\ llm_attempts = 2 /\ modelCalls = 2
    /\ \E i \in 1..Len(retrieved_files) : retrieved_files[i].error = ErrAllFailed

----------------------------------------------------------------------------
(* C37: the empty-repository answer and file content *)

\* some read_file evidence item of the run holds lines
HoldsFileContent ==
    \E i \in 1..Len(retrieved_files) :
        retrieved_files[i].tool = "read_file" /\ retrieved_files[i].lines # <<>>

\* C37: once the Analyzer has run, a run that holds file content (a read_file
\* evidence item with lines) does not have the answer 'Repository is empty, no
\* files to analyze.'
EmptyAnswerOnlyWithoutContent ==
    (AfterAnalyze /\ pc # "raised" /\ HoldsFileContent)
        => ~("summary" \in DOMAIN output /\ output["summary"] = JStr(SummaryEmptyRepo))
\* the answer is given with no file content in the run
EmptyAnswerWithoutContent ==
    /\ pc = "END"
    /\ output["summary"] = JStr(SummaryEmptyRepo)
    /\ ~HoldsFileContent

----------------------------------------------------------------------------
(* C38: the marker 'All read attempts failed' and the attempts made *)

\* the failed read attempts recorded in tool_calls for file f
FailedAttemptsOf(f) ==
    SelectSeq(ReadRecordsOf(tool_calls, f), LAMBDA c : c.result_status = "error")

\* the evidence items that carry the marker
MarkedItems ==
    {i \in 1..Len(retrieved_files) :
        retrieved_files[i].tool = "read_file"
            /\ retrieved_files[i].error = ErrAllFailed}

\* C38: every evidence item with the marker 'All read attempts failed' is for
\* a file with exactly MAX_FILE_RETRIES (3) failed attempts recorded in
\* tool_calls; a file whose attempts were cut short by the global failure
\* budget has no such item.
MarkerOnlyAfterThreeFailures ==
    \A i \in MarkedItems :
        Len(FailedAttemptsOf(retrieved_files[i].path)) = MAX_FILE_RETRIES
\* a marked file with three failed attempts
MarkerAfterThreeFailures ==
    \E i \in MarkedItems :
        Len(FailedAttemptsOf(retrieved_files[i].path)) = MAX_FILE_RETRIES
\* what the code does: a marked file has between 1 and MAX_FILE_RETRIES
\* recorded attempts, all failed and numbered from 1; fewer than
\* MAX_FILE_RETRIES only when the failed reads of the run have used up the
\* global failure budget
MarkerOfCode ==
    \A i \in MarkedItems :
        LET f == retrieved_files[i].path
            n == Len(FailedAttemptsOf(f))
        IN /\ n \in 1..MAX_FILE_RETRIES
           /\ Len(ReadRecordsOf(tool_calls, f)) = n
           /\ \A a \in 1..n : FailedAttemptsOf(f)[a].attempt = a
           /\ n < MAX_FILE_RETRIES => Len(FailedReadCalls) = MAX_GLOBAL_RETRIES
\* a marked file whose attempts were cut short by the global budget
MarkerAfterCutShort ==
    \E i \in MarkedItems :
        Len(FailedAttemptsOf(retrieved_files[i].path)) < MAX_FILE_RETRIES

----------------------------------------------------------------------------
(* C39: Planner, Analyzer and Verifier on path-traversal tasks *)

\* the plan has been made
Planned == pc \notin {"call", "plan", "raised"} /\ plan # <<>>
\* some read_file call was recorded
ReadCallMade == \E i \in 1..Len(tool_calls) : tool_calls[i].tool = "read_file"

\* C39: whenever the task is one that the Analyzer and the Verifier treat as
\* path traversal, the plan has no step 'Read relevant files' and no read_file
\* call is made in the run.
TraversalTasksAgree ==
    (Planned /\ _is_path_traversal_task(task))
        => /\ ~InSeq("Read relevant files", plan)
           /\ ~ReadCallMade
           /\ readArgs = <<>>
\* a traversal task whose run went through the Analyzer without reading
TraversalTaskNotRead ==
    /\ AfterAnalyze /\ pc = "END"
    /\ _is_path_traversal_task(task)
    /\ ~InSeq("Read relevant files", plan)
    /\ ~ReadCallMade

----------------------------------------------------------------------------
(* C40: the block of lines read_file returns *)

\* the arguments and the result of the read_file call
RangeReturned == pc = "range_returned"
ReadItem == retrieved_files[1]
ArgStart == readArgs[1].line_start
ArgEnd == readArgs[1].line_end
IsChunkRead == ArgStart # 0 \/ ArgEnd # 0
\* the first and the last line of the block of the claim; a line_end of None
\* stands for the end of the file
BlockFirst == IF IsChunkRead THEN Max(1, ArgStart) ELSE 1
BlockLast ==
    IF ~IsChunkRead THEN Min(ReadItem.total_lines, readArgs[1].max_lines)
    ELSE IF ArgEnd = 0 THEN ReadItem.total_lines
    ELSE Min(Max(Max(1, ArgStart), ArgEnd), ReadItem.total_lines)

\* C40: read_file returns the lines BlockFirst..BlockLast of the file, in
\* order, each labelled with its position in the file and holding the text of
\* that position; the line numbers the citation validator parses from the
\* evidence item are that interval of positive integers.
ContiguousLabelledBlock ==
    RangeReturned =>
        /\ Len(ReadItem.lines) = Max(0, BlockLast - BlockFirst + 1)
        /\ \A i \in 1..Len(ReadItem.lines) :
              ReadItem.lines[i] =
                  NumberedLine(BlockFirst + i - 1, LineText(ReadItem.path, BlockFirst + i - 1))
        /\ line_data(ReadItem) = BlockFirst..BlockLast
        /\ \A n \in line_data(ReadItem) : n >= 1 /\ n <= ReadItem.total_lines
        /\ \A n, m \in line_data(ReadItem) : \A k \in n..m : k \in line_data(ReadItem)
\* a chunk read that starts past the first line and ends before the last one
ContiguousLabelledBlockWitness ==
    /\ RangeReturned
    /\ ArgStart = 2 /\ ArgEnd = 3 /\ ReadItem.total_lines = 4
    /\ line_data(ReadItem) = {2, 3}
\* a full read cut at max_lines
FullReadCutWitness ==
    /\ RangeReturned /\ ~IsChunkRead
    /\ ReadItem.truncated
    /\ line_data(ReadItem) = 1..readArgs[1].max_lines
====
